---- MODULE Spec2Model ----
(***************************************************************************)
(* Model of the PSD-to-Elementor structure inference code:                 *)
(*   SpatialClusteringHelper, RawPSDAdapter, StructureInferenceEngine,     *)
(*   layerClassifier, elementorGenerator and ContainerLayoutHelper.        *)
(* Every function of the code is a pure function of its arguments, so each *)
(* one is an operator and each specification draws the arguments in Init   *)
(* and applies the function in an action.                                  *)
(***************************************************************************)
EXTENDS Integers, Sequences, FiniteSets, TLC

VARIABLES
    pc,          \* which component runs and how far it got
    layers,      \* clusterByProximity: the input layer list
    threshold,   \* clusterByProximity: the threshold argument
    clusters,    \* clusterByProximity: the returned clusters
    boundsResult, \* calculateClusterBounds: the returned box
    rawLayers,   \* processLayers: the input layer tree
    canvasWidth, \* processLayers: the canvasWidth argument
    rawResult,   \* processLayers: the returned tree, or the error thrown
    rawLayersAfter, \* processLayers: the input array once it has returned
    rawResultIds, \* processLayers: the outcome with the identifiers of the mocked generateId
    idsDrawn,    \* generateId: the identifiers handed out since the mock was installed
    rawResultAgain, \* processLayers: a second call on that array, and whether the
                 \* identifier sequence was replayed for it
    reclustered, \* clusterByProximity applied to each cluster it returned
    inferCluster, \* inferWidgetType: the cluster argument
    inferred,    \* inferWidgetType: the returned inference
    psdLayers,   \* classifyLayers: the layer tree the parser returned
    classifiedLayers, \* appState.classifiedLayers
    elementorJson, \* appState.elementorJson, or the error thrown
    layoutChildren, \* calculateLayout, calculateGap: the children argument
    gapDirection, \* calculateGap: the direction argument
    gapResult,   \* calculateGap: the returned gap
    directionResult, \* detectFlexDirection: the returned direction
    layoutResult, \* calculateLayout: the returned layout
    boxA,        \* smartDistance: the first bounds argument
    boxB,        \* smartDistance: the second bounds argument
    distance,    \* smartDistance: the returned distance
    boxChildren, \* ImageBoxContentClassifier.classify: the children argument
    boxResult,   \* classify: the returned {image, heading, description}
    boxChildrenAfter, \* classify: the children objects once it has returned
    rowClusters, \* groupIntoRows, detectContainerBoundaries: the clusters argument
    rowsResult,  \* groupIntoRows: the returned rows
    boundaries,  \* detectContainerBoundaries: the returned value
    relImage,    \* getRelativePosition, inferFlexDirection: the imageBounds argument
    relText,     \* getRelativePosition, inferFlexDirection: the textBounds argument
    positionResult, \* getRelativePosition: the returned position
    flexResult,  \* inferFlexDirection: the returned flex-direction
    treeStart,   \* LayerPreview: the layers initLayerPreview was given
    treeLayers,  \* LayerPreview: the module's layers array
    lastCall,    \* LayerPreview: the last moveLayer or nestLayer call and the tree before it
    appState,    \* main: the application state object
    handlers,    \* main: the handler calls made; for handleFileSelected the file and
                 \* the position of the call
    previewLayers \* LayerPreview: the layers array once showPreview has filled it

clusterVars == <<layers, threshold, clusters, boundsResult>>
adapterVars == <<rawLayers, canvasWidth, rawResult, rawLayersAfter, rawResultAgain,
                 rawResultIds, idsDrawn,
                 reclustered>>
inferVars == <<inferCluster, inferred>>
classifyVars == <<psdLayers, classifiedLayers, elementorJson>>
layoutVars == <<layoutChildren, gapDirection, gapResult, directionResult, layoutResult>>

distanceVars == <<boxA, boxB, distance>>

imageBoxVars == <<boxChildren, boxResult, boxChildrenAfter>>
rowVars == <<rowClusters, rowsResult, boundaries>>
relativeVars == <<relImage, relText, positionResult, flexResult>>
editorVars == <<treeStart, treeLayers, lastCall>>
appVars == <<appState, handlers, previewLayers>>

vars == <<pc, clusterVars, adapterVars, inferVars, classifyVars, layoutVars,
          distanceVars, imageBoxVars,
         rowVars,
         relativeVars,
         editorVars,
         appVars>>

(***************************************************************************)
(* Bounds of the model                                                     *)
(***************************************************************************)
MaxLayers == 3
MaxCluster == 4
GridCols == 3
GridRows == 2
MaxChildren == 3
MaxGaps == 4
MaxBoxChildren == 3
MaxRowClusters == 3

(***************************************************************************)
(* Helpers                                                                 *)
(***************************************************************************)
Min2(a, b) == IF a < b THEN a ELSE b
Max2(a, b) == IF a > b THEN a ELSE b

RECURSIVE SeqsUpTo(_, _)
SeqsUpTo(S, n) ==
    IF n = 0 THEN {<<>>}
    ELSE LET shorter == SeqsUpTo(S, n - 1)
         IN  shorter \cup {Append(s, x) : s \in {t \in shorter : Len(t) = n - 1}, x \in S}

\* a bounds record as the parser builds it: width and height are derived
Bounds(t, l, r, b) ==
    [top |-> t, left |-> l, right |-> r, bottom |-> b, width |-> r - l, height |-> b - t]

(***************************************************************************)
(* SpatialClusteringHelper                                                 *)
(***************************************************************************)
\* the larger of the two gaps instead of their Euclidean combination
GetMinDistanceSqChebyshev(boundsA, boundsB) ==
    LET hGap == Max2(0, Max2(boundsA.left, boundsB.left) - Min2(boundsA.right, boundsB.right))
        vGap == Max2(0, Max2(boundsA.top, boundsB.top) - Min2(boundsA.bottom, boundsB.bottom))
    IN  Max2(hGap, vGap) * Max2(hGap, vGap)

\* hGap*hGap + vGap*vGap, the square of the value getMinDistance returns
GetMinDistanceSq(boundsA, boundsB) ==
    LET hGap == Max2(0, Max2(boundsA.left, boundsB.left) - Min2(boundsA.right, boundsB.right))
        vGap == Max2(0, Max2(boundsA.top, boundsB.top) - Min2(boundsA.bottom, boundsB.bottom))
    IN  hGap * hGap + vGap * vGap

\* getMinDistance(a, b) <= threshold, for integer bounds and threshold:
\* sqrt(x) <= t  iff  t >= 0 and x <= t*t
WithinThreshold(boundsA, boundsB, th) ==
    th >= 0 /\ GetMinDistanceSq(boundsA, boundsB) <= th * th

FindNeighbors(layer, allLayers, th) ==
    LET IsNeighbor(other) ==
            other.id # layer.id /\ WithinThreshold(layer.bounds, other.bounds, th)
    IN  SelectSeq(allLayers, IsNeighbor)

\* the for loop over the neighbors of one dequeued layer
RECURSIVE AddNeighbors(_, _)
AddNeighbors(neighbors, st) ==
    IF neighbors = <<>> THEN st
    ELSE LET n == Head(neighbors)
         IN  IF n.id \in st.visited
             THEN AddNeighbors(Tail(neighbors), st)
             ELSE AddNeighbors(Tail(neighbors),
                      [visited |-> st.visited \cup {n.id},
                       cluster |-> Append(st.cluster, n),
                       queue   |-> Append(st.queue, n)])

\* the while loop over the queue
RECURSIVE ExpandLoop(_, _, _)
ExpandLoop(st, allLayers, th) ==
    IF st.queue = <<>> THEN st
    ELSE LET current == Head(st.queue)
             rest    == [st EXCEPT !.queue = Tail(st.queue)]
         IN  ExpandLoop(AddNeighbors(FindNeighbors(current, allLayers, th), rest),
                        allLayers, th)

\* returns the cluster and the updated visited set
ExpandCluster(seed, allLayers, th, visited) ==
    LET st == ExpandLoop([visited |-> visited \cup {seed.id},
                          cluster |-> <<seed>>,
                          queue   |-> <<seed>>], allLayers, th)
    IN  [cluster |-> st.cluster, visited |-> st.visited]

\* the seed loop without the test that skips visited seeds
RECURSIVE ClusterLoopNoSkip(_, _, _, _, _)
ClusterLoopNoSkip(todo, allLayers, th, visited, acc) ==
    IF todo = <<>> THEN acc
    ELSE LET r == ExpandCluster(Head(todo), allLayers, th, visited)
         IN  ClusterLoopNoSkip(Tail(todo), allLayers, th, r.visited,
                               IF Len(r.cluster) > 0 THEN Append(acc, r.cluster) ELSE acc)

\* the for loop over the input layers
RECURSIVE ClusterLoop(_, _, _, _, _)
ClusterLoop(todo, allLayers, th, visited, acc) ==
    IF todo = <<>> THEN acc
    ELSE IF Head(todo).id \in visited
         THEN ClusterLoop(Tail(todo), allLayers, th, visited, acc)
         ELSE LET r == ExpandCluster(Head(todo), allLayers, th, visited)
              IN  ClusterLoop(Tail(todo), allLayers, th, r.visited,
                              IF Len(r.cluster) > 0 THEN Append(acc, r.cluster) ELSE acc)

ClusterByProximity(ls, th) ==
    IF Len(ls) = 0 THEN <<>>
    ELSE IF Len(ls) = 1 THEN <<ls>>
    ELSE ClusterLoop(ls, ls, th, {}, <<>>)

\* getVerticalOverlap
GetVerticalOverlap(boundsA, boundsB) ==
    Max2(0, Min2(boundsA.bottom, boundsB.bottom) - Max2(boundsA.top, boundsB.top))

RECURSIVE SeqMin(_)
SeqMin(s) == IF Len(s) = 1 THEN s[1] ELSE Min2(s[1], SeqMin(Tail(s)))

RECURSIVE SeqMax(_)
SeqMax(s) == IF Len(s) = 1 THEN s[1] ELSE Max2(s[1], SeqMax(Tail(s)))

\* calculateClusterBounds, had it taken the right edge of the first layer
CalculateClusterBoundsFirstRight(cluster) ==
    IF Len(cluster) = 0 THEN Bounds(0, 0, 0, 0)
    ELSE Bounds(SeqMin([i \in 1..Len(cluster) |-> cluster[i].bounds.top]),
                SeqMin([i \in 1..Len(cluster) |-> cluster[i].bounds.left]),
                cluster[1].bounds.right,
                SeqMax([i \in 1..Len(cluster) |-> cluster[i].bounds.bottom]))

\* calculateClusterBounds, for a cluster that is an array of layers with bounds
CalculateClusterBounds(cluster) ==
    IF Len(cluster) = 0 THEN Bounds(0, 0, 0, 0)
    ELSE Bounds(SeqMin([i \in 1..Len(cluster) |-> cluster[i].bounds.top]),
                SeqMin([i \in 1..Len(cluster) |-> cluster[i].bounds.left]),
                SeqMax([i \in 1..Len(cluster) |-> cluster[i].bounds.right]),
                SeqMax([i \in 1..Len(cluster) |-> cluster[i].bounds.bottom]))

\* Array.prototype.sort with a comparator a.key - b.key: a stable sort.
\* The elements are records [key, val].
RECURSIVE InsertByKey(_, _)
InsertByKey(sorted, x) ==
    IF sorted = <<>> THEN <<x>>
    ELSE IF x.key < Head(sorted).key THEN <<x>> \o sorted
    ELSE <<Head(sorted)>> \o InsertByKey(Tail(sorted), x)

RECURSIVE SortByKey(_)
SortByKey(s) ==
    IF s = <<>> THEN <<>>
    ELSE InsertByKey(SortByKey(SubSeq(s, 1, Len(s) - 1)), s[Len(s)])

\* the values of a sorted sequence of [key, val] records
Vals(s) == [i \in 1..Len(s) |-> s[i].val]

\* the for loop of groupIntoRows, had it compared a cluster with the last
\* member of the row and not with the bounds of the whole row
RECURSIVE GroupLoopLastMember(_, _)
GroupLoopLastMember(todo, st) ==
    IF todo = <<>> THEN st
    ELSE LET cluster == Head(todo)
             clusterBounds == CalculateClusterBounds(cluster)
         IN  IF Len(st.currentRow) = 0
             THEN GroupLoopLastMember(Tail(todo),
                      [st EXCEPT !.currentRow = <<cluster>>,
                                 !.currentRowBounds = clusterBounds])
             ELSE LET overlapY == GetVerticalOverlap(st.currentRowBounds, clusterBounds)
                      minHeight == Min2(st.currentRowBounds.height, clusterBounds.height)
                  IN  IF 10 * overlapY > 3 * minHeight
                      THEN GroupLoopLastMember(Tail(todo),
                               [st EXCEPT
                                  !.currentRow = Append(st.currentRow, cluster),
                                  !.currentRowBounds = clusterBounds])
                      ELSE GroupLoopLastMember(Tail(todo),
                               [rows |-> Append(st.rows, st.currentRow),
                                currentRow |-> <<cluster>>,
                                currentRowBounds |-> clusterBounds])

\* the for loop of groupIntoRows; st holds rows, currentRow, currentRowBounds
RECURSIVE GroupLoop(_, _)
GroupLoop(todo, st) ==
    IF todo = <<>> THEN st
    ELSE LET cluster == Head(todo)
             clusterBounds == CalculateClusterBounds(cluster)
         IN  IF Len(st.currentRow) = 0
             THEN GroupLoop(Tail(todo),
                      [st EXCEPT !.currentRow = <<cluster>>,
                                 !.currentRowBounds = clusterBounds])
             ELSE LET overlapY == GetVerticalOverlap(st.currentRowBounds, clusterBounds)
                      minHeight == Min2(st.currentRowBounds.height, clusterBounds.height)
                  IN  IF 10 * overlapY > 3 * minHeight
                      THEN GroupLoop(Tail(todo),
                               [st EXCEPT
                                  !.currentRow = Append(st.currentRow, cluster),
                                  !.currentRowBounds =
                                      Bounds(Min2(st.currentRowBounds.top, clusterBounds.top),
                                             Min2(st.currentRowBounds.left, clusterBounds.left),
                                             Max2(st.currentRowBounds.right, clusterBounds.right),
                                             Max2(st.currentRowBounds.bottom, clusterBounds.bottom))])
                      ELSE GroupLoop(Tail(todo),
                               [rows |-> Append(st.rows, st.currentRow),
                                currentRow |-> <<cluster>>,
                                currentRowBounds |-> clusterBounds])

GroupIntoRows(cs) ==
    LET st == GroupLoop(cs, [rows |-> <<>>, currentRow |-> <<>>,
                             currentRowBounds |-> Bounds(0, 0, 0, 0)])
    IN  IF Len(st.currentRow) > 0 THEN Append(st.rows, st.currentRow) ELSE st.rows

\* A JavaScript array, as opposed to a layer object.  detectContainerBoundaries
\* returns arrays whose nesting depth depends on the path taken, and its
\* callers iterate over what they get, so the distinction is kept in the value.
Arr(items) == [js |-> "array", items |-> items]
IsArray(v) == "js" \in DOMAIN v

ArrOfLayers(cluster) == Arr(cluster)
ArrOfClusters(row) == Arr([i \in 1..Len(row) |-> Arr(row[i])])

\* detectContainerBoundaries, had it kept every cluster on a row of its own
\* whenever one of them reaches beyond the canvas
DetectContainerBoundariesByWidth(cs, width) ==
    IF Len(cs) = 0 THEN <<>>
    ELSE IF Len(cs) = 1 THEN [i \in 1..Len(cs) |-> ArrOfLayers(cs[i])]
    ELSE LET keyed == [i \in 1..Len(cs) |->
                          [key |-> CalculateClusterBounds(cs[i]).top, val |-> cs[i]]]
             sorted == Vals(SortByKey(keyed))
             rows == IF \E i \in 1..Len(cs) : CalculateClusterBounds(cs[i]).right > width
                     THEN [i \in 1..Len(sorted) |-> <<sorted[i]>>]
                     ELSE GroupIntoRows(sorted)
         IN  [i \in 1..Len(rows) |-> ArrOfClusters(rows[i])]

\* detectContainerBoundaries: an array of rows.  With several clusters every
\* row is an array of clusters; with one cluster the clusters array itself is
\* returned, whose only element is an array of layers.
\* The canvas width is a parameter that no statement reads.
DetectContainerBoundaries(cs, width) ==
    IF Len(cs) = 0 THEN <<>>
    ELSE IF Len(cs) = 1 THEN [i \in 1..Len(cs) |-> ArrOfLayers(cs[i])]
    ELSE LET keyed == [i \in 1..Len(cs) |->
                          [key |-> CalculateClusterBounds(cs[i]).top, val |-> cs[i]]]
             rows == GroupIntoRows(Vals(SortByKey(keyed)))
         IN  [i \in 1..Len(rows) |-> ArrOfClusters(rows[i])]

(***************************************************************************)
(* StructureInferenceEngine                                                *)
(* A layer is a record [id, name, type, visible, bounds, hasTextInfo,      *)
(* fontSize, text, hasImage, children]; fontSize 0 and text "" stand for   *)
(* an absent textInfo field.  Confidences are in hundredths.               *)
(***************************************************************************)
HEADING_FONT_SIZE == 24
BUTTON_MAX_WIDTH == 300
BUTTON_MAX_HEIGHT == 80
BUTTON_ASPECT_MIN == 2
BUTTON_ASPECT_MAX == 6
ICON_MAX_SIZE == 100

\* layer.textInfo?.fontSize || 16
FontSizeOf(layer) ==
    IF layer.hasTextInfo /\ layer.fontSize # 0 THEN layer.fontSize ELSE 16

\* layer.textInfo?.text || layer.name
TextOf(layer) ==
    IF layer.hasTextInfo /\ layer.text # "" THEN layer.text ELSE layer.name

\* layer.type === 'text' || layer.textInfo
IsTextLayer(layer) == layer.type = "text" \/ layer.hasTextInfo

\* layer.type === 'image' || layer.type === 'shape' || layer.hasImage
IsImageLayer(layer) == layer.type \in {"image", "shape"} \/ layer.hasImage

\* A bounds record may carry a field nan: the set of its fields whose value
\* is NaN.  NaN > 0 is false.
IsNaN(bounds, f) == "nan" \in DOMAIN bounds /\ f \in bounds.nan

GreaterThanZero(bounds, f) == ~IsNaN(bounds, f) /\ bounds[f] > 0

\* value <= limit: false for NaN
AtMost(bounds, f, limit) == ~IsNaN(bounds, f) /\ bounds[f] <= limit

\* !value: a number is falsy when it is 0 or NaN
Falsy(bounds, f) == IsNaN(bounds, f) \/ bounds[f] = 0

\* low <= width / height <= high, for a height that is not 0: the division
\* turns the comparisons round under a negative height
RatioWithin(width, height, low, high) ==
    IF height > 0
    THEN width >= low * height /\ width <= high * height
    ELSE width <= low * height /\ width >= high * height

\* isButtonShape: false without a width or a height, else
\* ratio = width / height within [2, 6] under the two size limits
IsButtonShape(layer) ==
    /\ ~Falsy(layer.bounds, "width")
    /\ ~Falsy(layer.bounds, "height")
    /\ AtMost(layer.bounds, "width", BUTTON_MAX_WIDTH)
    /\ AtMost(layer.bounds, "height", BUTTON_MAX_HEIGHT)
    /\ RatioWithin(layer.bounds.width, layer.bounds.height,
                   BUTTON_ASPECT_MIN, BUTTON_ASPECT_MAX)

\* classifySingleLayer, had it tested for an image before the button shape
ClassifySingleLayerImageFirst(layer) ==
    IF IsTextLayer(layer)
    THEN IF FontSizeOf(layer) >= HEADING_FONT_SIZE
         THEN [widgetType |-> "heading", confidence |-> 90, layers |-> <<layer>>,
               hasCompositeData |-> FALSE]
         ELSE [widgetType |-> "text-editor", confidence |-> 90, layers |-> <<layer>>,
               hasCompositeData |-> FALSE]
    ELSE IF IsImageLayer(layer)
    THEN [widgetType |-> "image", confidence |-> 85, layers |-> <<layer>>,
          hasCompositeData |-> FALSE]
    ELSE IF IsButtonShape(layer)
    THEN [widgetType |-> "button", confidence |-> 70, layers |-> <<layer>>,
          hasCompositeData |-> FALSE]
    ELSE [widgetType |-> "container", confidence |-> 30, layers |-> <<layer>>,
          hasCompositeData |-> FALSE]

ClassifySingleLayer(layer) ==
    IF IsTextLayer(layer)
    THEN IF FontSizeOf(layer) >= HEADING_FONT_SIZE
         THEN [widgetType |-> "heading", confidence |-> 90, layers |-> <<layer>>,
               hasCompositeData |-> FALSE]
         ELSE [widgetType |-> "text-editor", confidence |-> 90, layers |-> <<layer>>,
               hasCompositeData |-> FALSE]
    ELSE IF IsButtonShape(layer)
    THEN [widgetType |-> "button", confidence |-> 70, layers |-> <<layer>>,
          hasCompositeData |-> FALSE]
    ELSE IF IsImageLayer(layer)
    THEN [widgetType |-> "image", confidence |-> 85, layers |-> <<layer>>,
          hasCompositeData |-> FALSE]
    ELSE [widgetType |-> "container", confidence |-> 30, layers |-> <<layer>>,
          hasCompositeData |-> FALSE]

EmptyComposition ==
    [hasImage |-> FALSE, hasSmallImage |-> FALSE, hasHeading |-> FALSE,
     hasText |-> FALSE, hasButtonShape |-> FALSE, textCount |-> 0,
     imageCount |-> 0, texts |-> <<>>, headings |-> <<>>, images |-> <<>>]

\* one iteration of the loop of analyzeComposition
AnalyzeLayer(c, layer) ==
    IF IsTextLayer(layer)
    THEN IF FontSizeOf(layer) >= HEADING_FONT_SIZE
         THEN [c EXCEPT !.hasHeading = TRUE,
                        !.headings = Append(c.headings, layer),
                        !.textCount = c.textCount + 1]
         ELSE [c EXCEPT !.hasText = TRUE,
                        !.texts = Append(c.texts, TextOf(layer)),
                        !.textCount = c.textCount + 1]
    ELSE IF IsImageLayer(layer)
    THEN LET small == AtMost(layer.bounds, "width", ICON_MAX_SIZE)
                      /\ AtMost(layer.bounds, "height", ICON_MAX_SIZE)
         IN  [c EXCEPT !.imageCount = c.imageCount + 1,
                       !.images = Append(c.images, layer),
                       !.hasSmallImage = c.hasSmallImage \/ small,
                       !.hasImage = c.hasImage \/ ~small,
                       !.hasButtonShape = c.hasButtonShape \/ IsButtonShape(layer)]
    ELSE c

RECURSIVE AnalyzeLoop(_, _)
AnalyzeLoop(todo, c) ==
    IF todo = <<>> THEN c ELSE AnalyzeLoop(Tail(todo), AnalyzeLayer(c, Head(todo)))

AnalyzeComposition(cluster) == AnalyzeLoop(cluster, EmptyComposition)

ExtractImageBoxData(composition) ==
    [title |-> IF Len(composition.headings) > 0
               THEN TextOf(composition.headings[1]) ELSE "",
     description |-> IF Len(composition.texts) > 0 THEN composition.texts[1] ELSE "",
     imageUrl |-> ""]

ExtractIconBoxData(composition) ==
    [title |-> IF Len(composition.headings) > 0
               THEN TextOf(composition.headings[1]) ELSE "",
     description |-> IF Len(composition.texts) > 0 THEN composition.texts[1] ELSE "",
     iconUrl |-> ""]

\* inferWidgetType with the icon-box test ahead of the image-box test
InferWidgetTypeIconBoxFirst(cluster) ==
    IF Len(cluster) = 0
    THEN [widgetType |-> "container", confidence |-> 0, layers |-> <<>>,
          hasCompositeData |-> FALSE]
    ELSE IF Len(cluster) = 1 THEN ClassifySingleLayer(cluster[1])
    ELSE LET composition == AnalyzeComposition(cluster)
         IN  IF composition.hasSmallImage /\ composition.hasHeading
                /\ composition.hasText
             THEN [widgetType |-> "icon-box", confidence |-> 80, layers |-> cluster,
                   hasCompositeData |-> TRUE,
                   compositeData |-> ExtractIconBoxData(composition)]
             ELSE IF composition.hasImage /\ composition.hasHeading
             THEN [widgetType |-> "image-box", confidence |-> 85, layers |-> cluster,
                   hasCompositeData |-> TRUE,
                   compositeData |-> ExtractImageBoxData(composition)]
             ELSE IF composition.hasButtonShape /\ composition.textCount = 1
             THEN [widgetType |-> "button", confidence |-> 75, layers |-> cluster,
                   hasCompositeData |-> FALSE]
             ELSE IF composition.textCount >= 3 /\ ~composition.hasImage
             THEN [widgetType |-> "icon-list", confidence |-> 70, layers |-> cluster,
                   hasCompositeData |-> TRUE,
                   compositeData |-> [listItems |-> composition.texts]]
             ELSE [widgetType |-> "container", confidence |-> 50, layers |-> cluster,
                   hasCompositeData |-> FALSE]

\* inferWidgetType with the icon-list test not looking at images
InferWidgetTypeListAnyImage(cluster) ==
    IF Len(cluster) = 0
    THEN [widgetType |-> "container", confidence |-> 0, layers |-> <<>>,
          hasCompositeData |-> FALSE]
    ELSE IF Len(cluster) = 1 THEN ClassifySingleLayer(cluster[1])
    ELSE LET composition == AnalyzeComposition(cluster)
         IN  IF composition.hasImage /\ composition.hasHeading
             THEN [widgetType |-> "image-box", confidence |-> 85, layers |-> cluster,
                   hasCompositeData |-> TRUE,
                   compositeData |-> ExtractImageBoxData(composition)]
             ELSE IF composition.hasSmallImage /\ composition.hasHeading
                     /\ composition.hasText
             THEN [widgetType |-> "icon-box", confidence |-> 80, layers |-> cluster,
                   hasCompositeData |-> TRUE,
                   compositeData |-> ExtractIconBoxData(composition)]
             ELSE IF composition.hasButtonShape /\ composition.textCount = 1
             THEN [widgetType |-> "button", confidence |-> 75, layers |-> cluster,
                   hasCompositeData |-> FALSE]
             ELSE IF composition.textCount >= 3
             THEN [widgetType |-> "icon-list", confidence |-> 70, layers |-> cluster,
                   hasCompositeData |-> TRUE,
                   compositeData |-> [listItems |-> composition.texts]]
             ELSE [widgetType |-> "container", confidence |-> 50, layers |-> cluster,
                   hasCompositeData |-> FALSE]

\* inferWidgetType, for a cluster that is an array of layers
InferWidgetType(cluster) ==
    IF Len(cluster) = 0
    THEN [widgetType |-> "container", confidence |-> 0, layers |-> <<>>,
          hasCompositeData |-> FALSE]
    ELSE IF Len(cluster) = 1 THEN ClassifySingleLayer(cluster[1])
    ELSE LET composition == AnalyzeComposition(cluster)
         IN  IF composition.hasImage /\ composition.hasHeading
             THEN [widgetType |-> "image-box", confidence |-> 85, layers |-> cluster,
                   hasCompositeData |-> TRUE,
                   compositeData |-> ExtractImageBoxData(composition)]
             ELSE IF composition.hasSmallImage /\ composition.hasHeading
                     /\ composition.hasText
             THEN [widgetType |-> "icon-box", confidence |-> 80, layers |-> cluster,
                   hasCompositeData |-> TRUE,
                   compositeData |-> ExtractIconBoxData(composition)]
             ELSE IF composition.hasButtonShape /\ composition.textCount = 1
             THEN [widgetType |-> "button", confidence |-> 75, layers |-> cluster,
                   hasCompositeData |-> FALSE]
             ELSE IF composition.textCount >= 3 /\ ~composition.hasImage
             THEN [widgetType |-> "icon-list", confidence |-> 70, layers |-> cluster,
                   hasCompositeData |-> TRUE,
                   compositeData |-> [listItems |-> composition.texts]]
             ELSE [widgetType |-> "container", confidence |-> 50, layers |-> cluster,
                   hasCompositeData |-> FALSE]

RECURSIVE SeqSum(_)
SeqSum(s) == IF s = <<>> THEN 0 ELSE Head(s) + SeqSum(Tail(s))

Abs(x) == IF x < 0 THEN -x ELSE x

\* 2^k
RECURSIVE TwoTo(_)
TwoTo(k) == IF k = 0 THEN 1 ELSE 2 * TwoTo(k - 1)

\* 2^k modulo n
RECURSIVE TwoToMod(_, _)
TwoToMod(k, n) == IF k = 0 THEN 1 % n ELSE (2 * TwoToMod(k - 1, n)) % n

\* the exponent l of the power of two with 2^l / 4 <= sum / n < 2^l / 2,
\* counted up from the exponent given, for 4 * sum >= n
RECURSIVE BinadeExponent(_, _, _)
BinadeExponent(sum, n, l) ==
    IF 2 * n * TwoTo(l) <= 4 * sum THEN BinadeExponent(sum, n, l + 1) ELSE l

\* avg = sum / n is the double nearest to the quotient.  The result is
\* avg - sum/n in n-ths of the unit in the last place of avg (2^-52 times the
\* power of two at or below the quotient): 0 when the quotient is a double,
\* negative when the division rounded down.
RoundingOfAverage(sum, n) ==
    LET rho == ((sum % n) * TwoToMod(54 - BinadeExponent(sum, n, 0), n)) % n
    IN  IF 2 * rho < n THEN -rho ELSE n - rho

\* Math.abs(w - avg) < avg * 0.2 where 5 * |n*w - sum| = sum > 0: in exact
\* arithmetic both sides are sum / (5*n).  In doubles the subtraction is exact,
\* so the left side is off by the rounding of avg; 0.2 is the double
\* 0.2 * (1 + 2^-54), so the product is sum/(5*n) plus a fifth of the rounding
\* of avg plus avg * 2^-54 / 5, rounded to a double; the comparison holds when
\* the product lies beyond the midpoint between the left side and the next
\* double, an eighth or a quarter of the unit of avg further.
WithinFifthOnTie(w, sum, n, p, j) ==
    IF 16 * sum >= 5 * n * p
    THEN 8 * ((IF n * w > sum THEN 6 ELSE -4) * j * p + sum) > 5 * n * p
    ELSE 16 * ((IF n * w > sum THEN 6 ELSE -4) * j * p + sum) > 5 * n * p

\* Math.abs(w - avg) < avg * 0.2 with avg = sum / n.  Away from the tie
\* 5 * |n*w - sum| = sum the doubles decide as the exact quotient does.
WithinFifth(w, sum, n) ==
    IF 5 * Abs(n * w - sum) # sum THEN 5 * Abs(n * w - sum) < sum
    ELSE IF sum = 0 THEN FALSE
    ELSE WithinFifthOnTie(w, sum, n, TwoTo(BinadeExponent(sum, n, 0)),
                          RoundingOfAverage(sum, n))

\* the value of sum / n: the integer when the division is exact, else the
\* quotient as a fraction, which the code holds rounded to the nearest double
Average(sum, n) ==
    IF sum % n = 0 THEN sum \div n ELSE [numerator |-> sum, denominator |-> n]

\* the result of detectRepeatingPattern for two or more clusters
PatternOf(bounds, n, sumW, sumH) ==
    [isRepeating |-> \A i \in 1..n :
                        /\ WithinFifth(bounds[i].width, sumW, n)
                        /\ WithinFifth(bounds[i].height, sumH, n),
     count |-> n,
     avgWidth |-> Average(sumW, n),
     avgHeight |-> Average(sumH, n)]

\* detectRepeatingPattern: every width and every height within 20% of the
\* average; below two clusters the result has no count and no averages
DetectRepeatingPattern(cs) ==
    IF Len(cs) < 2 THEN [isRepeating |-> FALSE]
    ELSE LET bounds == [i \in 1..Len(cs) |-> CalculateClusterBounds(cs[i])]
         IN  PatternOf(bounds, Len(cs),
                       SeqSum([i \in 1..Len(cs) |-> bounds[i].width]),
                       SeqSum([i \in 1..Len(cs) |-> bounds[i].height]))

SmartName(widgetType) ==
    CASE widgetType = "container" -> "Smart container"
      [] widgetType = "heading" -> "Smart heading"
      [] widgetType = "text-editor" -> "Smart text-editor"
      [] widgetType = "button" -> "Smart button"
      [] widgetType = "image" -> "Smart image"
      [] widgetType = "image-box" -> "Smart image-box"
      [] widgetType = "icon-box" -> "Smart icon-box"
      [] widgetType = "icon-list" -> "Smart icon-list"

\* the badgeClass buildClassifiedLayer gives the children of a composite
ChildBadgeClass(l) ==
    IF l.type = "text"
    THEN IF l.hasTextInfo /\ l.fontSize >= 24 THEN "heading" ELSE "text"
    ELSE IF l.hasImage \/ l.type = "image" THEN "image" ELSE "container"

\* buildClassifiedLayer; id 0 stands for an identifier made by generateId.
\* Optional fields of the result are present only when the code sets them.
BuildClassifiedLayer(inference, bounds) ==
    LET base == [id |-> 0,
                 name |-> SmartName(inference.widgetType),
                 type |-> IF inference.widgetType = "container" \/ Len(inference.layers) = 0
                          THEN "group" ELSE inference.layers[1].type,
                 widgetType |-> inference.widgetType,
                 visible |-> TRUE,
                 bounds |-> bounds,
                 children |-> IF inference.hasCompositeData
                              THEN [i \in 1..Len(inference.layers) |->
                                       [widgetType |->
                                            ClassifySingleLayer(inference.layers[i]).widgetType,
                                        badgeClass |-> ChildBadgeClass(inference.layers[i])]
                                       @@ inference.layers[i]]
                              ELSE <<>>,
                 isSmartDetected |-> TRUE,
                 confidence |-> inference.confidence]
        composite == IF inference.hasCompositeData
                     THEN [compositeData |-> inference.compositeData, isComposite |-> TRUE]
                     ELSE <<>>
        counted == IF inference.widgetType = "container"
                   THEN [sourceLayerCount |-> Len(inference.layers)] ELSE <<>>
        texted == IF inference.widgetType \in {"heading", "text-editor"}
                     /\ Len(inference.layers) > 0 /\ inference.layers[1].hasTextInfo
                  THEN [textInfo |-> [fontSize |-> inference.layers[1].fontSize,
                                      text |-> inference.layers[1].text]]
                  ELSE <<>>
    IN  base @@ composite @@ counted @@ texted

(***************************************************************************)
(* RawPSDAdapter                                                           *)
(***************************************************************************)
\* SpatialClusteringHelper.DEFAULT_THRESHOLD, which processLayers does not use
DEFAULT_THRESHOLD == 20

\* RawPSDAdapter.CONFIG.PROXIMITY_THRESHOLD
PROXIMITY_THRESHOLD == 50

GetBadgeClass(widgetType) ==
    IF widgetType = "text-editor" THEN "text"
    ELSE IF widgetType \in {"container", "heading", "button", "image",
                            "image-box", "icon-box", "icon-list"}
    THEN widgetType ELSE "container"

RECURSIVE FlattenLayers(_)
FlattenLayers(ls) ==
    IF ls = <<>> THEN <<>>
    ELSE LET layer == Head(ls)
         IN  (IF Len(layer.children) > 0 THEN FlattenLayers(layer.children)
              ELSE <<layer>>) \o FlattenLayers(Tail(ls))

FilterValidLayers(ls) ==
    LET Valid(layer) == /\ layer.visible
                        /\ GreaterThanZero(layer.bounds, "width")
                        /\ GreaterThanZero(layer.bounds, "height")
    IN  SelectSeq(ls, Valid)

\* subClusterLayers, had it clustered pairs of layers at a tenth of the
\* threshold
SubClusterLayersTighter(ls) ==
    ClusterByProximity(ls, IF Len(ls) > 2 THEN (PROXIMITY_THRESHOLD * 6) \div 10
                           ELSE PROXIMITY_THRESHOLD \div 10)

\* PROXIMITY_THRESHOLD * 0.6 is 30 exactly
SubClusterLayers(ls) == ClusterByProximity(ls, (PROXIMITY_THRESHOLD * 6) \div 10)

BuildWidgetFromLayer(layer, inference) ==
    [id |-> layer.id,
     name |-> layer.name,
     type |-> layer.type,
     widgetType |-> inference.widgetType,
     visible |-> layer.visible,
     bounds |-> layer.bounds,
     children |-> <<>>,
     isSmartDetected |-> TRUE,
     confidence |-> inference.confidence,
     badgeClass |-> GetBadgeClass(inference.widgetType)]
    @@ (IF layer.hasTextInfo
        THEN [textInfo |-> [fontSize |-> layer.fontSize, text |-> layer.text]] ELSE <<>>)
    @@ (IF layer.hasImage THEN [hasImage |-> TRUE] ELSE <<>>)

\* The outcome of a call: a value, or a TypeError thrown on the way.
Returned(v) == [threw |-> FALSE, value |-> v]
Threw == [threw |-> TRUE]

AnyThrew(results) == \E i \in 1..Len(results) : results[i].threw
Values(results) == [i \in 1..Len(results) |-> results[i].value]

\* the element processCluster returns, given what it computed on the way
FinishCluster(element, children) ==
    Returned([badgeClass |-> GetBadgeClass(element.widgetType),
              children |-> children] @@ element)

\* element.children = subClusters.map(sub => this.processCluster(sub))
WithSubResults(element, subResults) ==
    IF AnyThrew(subResults) THEN Threw
    ELSE FinishCluster(element, Values(subResults))

\* element.children = cluster.map(layer => buildWidgetFromLayer(...))
WidgetsOf(cluster) ==
    [i \in 1..Len(cluster) |->
        BuildWidgetFromLayer(cluster[i], ClassifySingleLayer(cluster[i]))]

\* processCluster(cluster).  A cluster that is a layer object, not an array,
\* has no length and is not iterable: inferWidgetType falls through to
\* analyzeComposition, whose for...of throws a TypeError.
RECURSIVE ProcessCluster(_)
ProcessInferred(cluster, inference) ==
    IF inference.widgetType = "container" /\ Len(cluster) > 1
    THEN LET subClusters == SubClusterLayers(cluster)
         IN  IF Len(subClusters) > 1
             THEN WithSubResults(
                      BuildClassifiedLayer(inference, CalculateClusterBounds(cluster)),
                      [i \in 1..Len(subClusters) |-> ProcessCluster(Arr(subClusters[i]))])
             ELSE FinishCluster(
                      BuildClassifiedLayer(inference, CalculateClusterBounds(cluster)),
                      WidgetsOf(cluster))
    ELSE LET element == BuildClassifiedLayer(inference, CalculateClusterBounds(cluster))
         IN  FinishCluster(element, element.children)

ProcessCluster(c) ==
    IF ~IsArray(c) THEN Threw
    ELSE ProcessInferred(c.items, InferWidgetType(c.items))

\* clusters.flat(): arrays are spliced in, layer objects are kept
RECURSIVE Flat(_)
Flat(items) ==
    IF items = <<>> THEN <<>>
    ELSE (IF IsArray(Head(items)) THEN Head(items).items ELSE <<Head(items)>>)
         \o Flat(Tail(items))

\* the container createRowContainer returns
RowContainerOf(bounds, pattern, results) ==
    IF AnyThrew(results) THEN Threw
    ELSE Returned(
           [id |-> 0,
            name |-> IF pattern.isRepeating THEN "Card Row" ELSE "Row Container",
            type |-> "group",
            widgetType |-> "container",
            visible |-> TRUE,
            bounds |-> bounds,
            children |-> Values(results),
            isSmartDetected |-> TRUE,
            badgeClass |-> "container",
            layout |-> [direction |-> "row", wrap |-> "nowrap",
                        justifyContent |-> "space-between",
                        alignItems |-> "flex-start"]]
           @@ (IF pattern.isRepeating
               THEN [isRepeatingPattern |-> TRUE, patternCount |-> pattern.count]
               ELSE <<>>))

\* createRowContainer(clusters).  detectRepeatingPatterns calls
\* calculateClusterBounds on every element, which iterates over it: an element
\* that is a layer object throws a TypeError.
CreateRowContainer(items) ==
    IF \E i \in 1..Len(items) : ~IsArray(items[i]) THEN Threw
    ELSE RowContainerOf(CalculateClusterBounds(Flat(items)),
                        DetectRepeatingPattern([i \in 1..Len(items) |-> items[i].items]),
                        [i \in 1..Len(items) |-> ProcessCluster(items[i])])

\* createColumnContainer, had it taken the bounds of its first element
CreateColumnContainerFirstBounds(elements) ==
    [id |-> 0,
     name |-> "Root Container",
     type |-> "group",
     widgetType |-> "container",
     visible |-> TRUE,
     bounds |-> elements[1].bounds,
     children |-> elements,
     isSmartDetected |-> TRUE,
     badgeClass |-> "container",
     layout |-> [direction |-> "column", wrap |-> "nowrap",
                 justifyContent |-> "flex-start", alignItems |-> "stretch"]]

CreateColumnContainer(elements) ==
    [id |-> 0,
     name |-> "Root Container",
     type |-> "group",
     widgetType |-> "container",
     visible |-> TRUE,
     bounds |-> Bounds(SeqMin([i \in 1..Len(elements) |-> elements[i].bounds.top]),
                       SeqMin([i \in 1..Len(elements) |-> elements[i].bounds.left]),
                       SeqMax([i \in 1..Len(elements) |-> elements[i].bounds.right]),
                       SeqMax([i \in 1..Len(elements) |-> elements[i].bounds.bottom])),
     children |-> elements,
     isSmartDetected |-> TRUE,
     badgeClass |-> "container",
     layout |-> [direction |-> "column", wrap |-> "nowrap",
                 justifyContent |-> "flex-start", alignItems |-> "stretch"]]

\* the for loop of buildTree: the elements pushed to result, or a throw
RECURSIVE BuildRows(_, _)
PushRow(rest, result, r) ==
    IF r.threw THEN Threw ELSE BuildRows(rest, Append(result, r.value))

BuildRows(rows, result) ==
    IF rows = <<>> THEN Returned(result)
    ELSE IF Len(Head(rows).items) = 0 THEN BuildRows(Tail(rows), result)
    ELSE PushRow(Tail(rows), result,
                 IF Len(Head(rows).items) = 1 THEN ProcessCluster(Head(rows).items[1])
                 ELSE CreateRowContainer(Head(rows).items))

\* the end of buildTree: nothing, the single element, or a column container
WrapTopLevel(built) ==
    IF built.threw THEN Threw
    ELSE IF Len(built.value) = 0 THEN Returned(<<>>)
    ELSE IF Len(built.value) = 1 THEN Returned(built.value)
    ELSE Returned(<<CreateColumnContainer(built.value)>>)

\* buildTree(rows, canvasWidth) does not read the canvas width either
BuildTree(rows, width) == WrapTopLevel(BuildRows(rows, <<>>))

\* steps 2 to 5 of processLayers
ProcessFlatLayers(validLayers, width) ==
    IF Len(validLayers) = 0 THEN Returned(<<>>)
    ELSE BuildTree(DetectContainerBoundaries(
                       ClusterByProximity(validLayers, PROXIMITY_THRESHOLD), width),
                   width)

ProcessLayers(ls, width) ==
    IF Len(FlattenLayers(ls)) = 0 THEN Returned(<<>>)
    ELSE ProcessFlatLayers(FilterValidLayers(FlattenLayers(ls)), width)

\* generateId() with Math.random mocked: the n-th call made since the mock
\* was installed returns the n-th identifier of one fixed sequence
GenerateId(n) == 100 + n

\* an element whose id came from generateId(): the elements of
\* buildClassifiedLayer, createRowContainer and createColumnContainer, and a
\* widget of buildWidgetFromLayer whose layer has no id (layer.id ||
\* generateId()).  The layers a composite element keeps as children are
\* copies of the input layers and get no identifier.
DrawsId(e) == "isSmartDetected" \in DOMAIN e /\ e.id = 0

\* The elements with the identifiers in the order of the calls, after `drawn`
\* calls were made before: processCluster calls buildClassifiedLayer before
\* it builds the children, createRowContainer evaluates id: generateId()
\* before children: clusters.map(...), and the children are built from left
\* to right.
RECURSIVE NumberElements(_, _)
NumberElement(e, drawn) ==
    LET own == IF DrawsId(e) THEN drawn + 1 ELSE drawn
        kids == NumberElements(e.children, own)
    IN  [element |-> [e EXCEPT !.id = IF DrawsId(e) THEN GenerateId(own) ELSE e.id,
                               !.children = kids.elements],
         drawn |-> kids.drawn]

NumberRest(first, rest) ==
    [elements |-> <<first.element>> \o rest.elements, drawn |-> rest.drawn]

NumberFrom(first, others) == NumberRest(first, NumberElements(others, first.drawn))

NumberElements(es, drawn) ==
    IF es = <<>> THEN [elements |-> <<>>, drawn |-> drawn]
    ELSE NumberFrom(NumberElement(Head(es), drawn), Tail(es))

\* The outcome of a call and the number of identifiers drawn when it ended.
\* A call that throws does so on the first row, before any generateId().
\* createColumnContainer draws its identifier after the rows were built.
WrapNumbered(numbered) ==
    IF Len(numbered.elements) <= 1
    THEN [outcome |-> Returned(numbered.elements), drawn |-> numbered.drawn]
    ELSE [outcome |-> Returned(<<[CreateColumnContainer(numbered.elements)
                                     EXCEPT !.id = GenerateId(numbered.drawn + 1)]>>),
          drawn |-> numbered.drawn + 1]

WrapTopLevelMocked(built, drawn) ==
    IF built.threw THEN [outcome |-> Threw, drawn |-> drawn]
    ELSE WrapNumbered(NumberElements(built.value, drawn))

BuildTreeMocked(rows, width, drawn) == WrapTopLevelMocked(BuildRows(rows, <<>>), drawn)

ProcessFlatLayersMocked(validLayers, width, drawn) ==
    IF Len(validLayers) = 0 THEN [outcome |-> Returned(<<>>), drawn |-> drawn]
    ELSE BuildTreeMocked(DetectContainerBoundaries(
                             ClusterByProximity(validLayers, PROXIMITY_THRESHOLD), width),
                         width, drawn)

\* processLayers(layers, canvasWidth) with generateId mocked
ProcessLayersMocked(ls, width, drawn) ==
    IF Len(FlattenLayers(ls)) = 0 THEN [outcome |-> Returned(<<>>), drawn |-> drawn]
    ELSE ProcessFlatLayersMocked(FilterValidLayers(FlattenLayers(ls)), width, drawn)

\* every element of a tree
RECURSIVE ElementsOf(_)
ElementsOf(es) ==
    UNION {{es[i]} \cup ElementsOf(es[i].children) : i \in 1..Len(es)}

\* the widgets built from a layer without an id
BuiltFrom(l, elements) ==
    {e \in elements : /\ "isSmartDetected" \in DOMAIN e
                      /\ e.name = l.name
                      /\ e.bounds = l.bounds
                      /\ e.id # 0}

RECURSIVE StoreIds(_, _)
StoreId(l, elements) ==
    IF Len(l.children) > 0 THEN [l EXCEPT !.children = StoreIds(l.children, elements)]
    ELSE IF l.id = 0 /\ BuiltFrom(l, elements) # {}
    THEN [l EXCEPT !.id = (CHOOSE e \in BuiltFrom(l, elements) : TRUE).id]
    ELSE l

StoreIds(ls, elements) == [i \in 1..Len(ls) |-> StoreId(ls[i], elements)]

\* buildWidgetFromLayer, had it kept the identifier it drew on the layer
\* (layer.id = layer.id || generateId())
LayersAfterProcessIdStored(ls, outcome) ==
    IF outcome.threw THEN ls ELSE StoreIds(ls, ElementsOf(outcome.value))

\* The caller's array and layers after processLayers has ended with this
\* outcome.  flattenLayers pushes the leaves into a new array, filter and the
\* sorts ([...clusters].sort, [...layers].sort) work on copies, the
\* assignments element.children =, element.badgeClass =, layer.compositeData =
\* write to objects made by the call, buildClassifiedLayer spreads each layer
\* into a new object and buildWidgetFromLayer reads layer.id without
\* assigning it: no field of the caller's layers is written.
LayersAfterProcess(ls, outcome) == ls

(***************************************************************************)
(* LayoutDistanceHelper and ContainerLayoutHelper                          *)
(***************************************************************************)
\* verticalDistance(a, b): the gap between two boxes, 0 if they overlap
VerticalDistance(a, b) ==
    IF a.bottom < b.top THEN b.top - a.bottom
    ELSE IF b.bottom < a.top THEN a.top - b.bottom
    ELSE 0

HorizontalDistance(a, b) ==
    IF a.right < b.left THEN b.left - a.right
    ELSE IF b.right < a.left THEN a.left - b.right
    ELSE 0

SmartDistanceVerticalFirst(a, b) ==
    IF VerticalDistance(a, b) # 0 THEN VerticalDistance(a, b)
    ELSE HorizontalDistance(a, b)

\* smartDistance(a, b): the gap along the axis on which the boxes are apart,
\* the smaller of the two when they are apart on both
SmartDistance(a, b) ==
    IF VerticalDistance(a, b) = 0 THEN HorizontalDistance(a, b)
    ELSE IF HorizontalDistance(a, b) = 0 THEN VerticalDistance(a, b)
    ELSE Min2(VerticalDistance(a, b), HorizontalDistance(a, b))

\* children.filter(c => c.visible !== false && c.bounds && width > 0 && height > 0)
\* getVisibleChildren, had it kept children of no width or height
GetVisibleChildrenAnySize(children) ==
    SelectSeq(children, LAMBDA c : c.visible)

GetVisibleChildren(children) ==
    SelectSeq(children,
              LAMBDA c : /\ c.visible
                         /\ GreaterThanZero(c.bounds, "width")
                         /\ GreaterThanZero(c.bounds, "height"))

OverlapsAsRowInclusive(a, b) ==
    10 * Max2(0, Min2(a.bottom, b.bottom) - Max2(a.top, b.top))
        >= 3 * Min2(a.height, b.height)

\* overlapY > minHeight * 0.3 for the pair (a, b), in tenths; Math.min is NaN
\* when a height is, and no number is greater than NaN
OverlapsAsRow(a, b) ==
    /\ ~IsNaN(a, "height")
    /\ ~IsNaN(b, "height")
    /\ 10 * Max2(0, Min2(a.bottom, b.bottom) - Max2(a.top, b.top))
          > 3 * Min2(a.height, b.height)

DetectFlexDirection(children) ==
    IF Len(children) < 2 THEN "column"
    ELSE IF \E i \in 1..(Len(children) - 1) : \E j \in (i + 1)..Len(children) :
                OverlapsAsRow(children[i].bounds, children[j].bounds)
         THEN "row"
         ELSE "column"

\* [...children].sort((a, b) => a.bounds.top - b.bounds.top), a stable sort
SortByTop(children) ==
    Vals(SortByKey([i \in 1..Len(children) |->
                       [key |-> children[i].bounds.top, val |-> children[i]]]))

SortByLeft(children) ==
    Vals(SortByKey([i \in 1..Len(children) |->
                       [key |-> children[i].bounds.left, val |-> children[i]]]))

\* the loop of detectWrap: item.top > currentTop + (currentBottom - currentTop) / 2
\* starts a new row, anything else extends the current one
RECURSIVE SweepRows(_, _, _, _)
SweepRows(todo, rows, currentTop, currentBottom) ==
    IF todo = <<>> THEN rows
    ELSE IF 2 * Head(todo).bounds.top > currentTop + currentBottom
         THEN SweepRows(Tail(todo), rows + 1,
                        Head(todo).bounds.top, Head(todo).bounds.bottom)
         ELSE SweepRows(Tail(todo), rows, currentTop,
                        Max2(currentBottom, Head(todo).bounds.bottom))

\* rows counted by the sweep over the children sorted by top
RowsOfSorted(sorted) ==
    SweepRows(Tail(sorted), 1, sorted[1].bounds.top, sorted[1].bounds.bottom)

DetectWrapAnyLength(children) ==
    IF Len(children) < 1 THEN FALSE
    ELSE RowsOfSorted(SortByTop(children)) > 1

DetectWrap(children) ==
    IF Len(children) < 3 THEN FALSE
    ELSE RowsOfSorted(SortByTop(children)) > 1

\* the gaps between consecutive sorted children that are positive
RECURSIVE PositiveGaps(_, _)
PositiveGaps(sorted, direction) ==
    IF Len(sorted) < 2 THEN <<>>
    ELSE LET gap == IF direction = "row"
                    THEN HorizontalDistance(sorted[1].bounds, sorted[2].bounds)
                    ELSE VerticalDistance(sorted[1].bounds, sorted[2].bounds)
         IN  (IF gap > 0 THEN <<gap>> ELSE <<>>)
                 \o PositiveGaps(Tail(sorted), direction)

\* gaps.sort((a, b) => a - b)
SortNumbers(gaps) ==
    Vals(SortByKey([i \in 1..Len(gaps) |-> [key |-> gaps[i], val |-> gaps[i]]]))

\* gaps.length ? gaps[Math.floor(gaps.length / 2)] : 0
MiddleGap(gaps) ==
    IF Len(gaps) > 0 THEN gaps[(Len(gaps) \div 2) + 1] ELSE 0

CalculateGapAtLeastTwo(children, direction) ==
    IF Len(children) < 2 THEN 0
    ELSE IF Len(PositiveGaps(IF direction = "row" THEN SortByLeft(children)
                             ELSE SortByTop(children), direction)) < 2 THEN 0
    ELSE MiddleGap(SortNumbers(PositiveGaps(
             IF direction = "row" THEN SortByLeft(children) ELSE SortByTop(children),
             direction)))

CalculateGap(children, direction) ==
    IF Len(children) < 2 THEN 0
    ELSE MiddleGap(SortNumbers(PositiveGaps(
             IF direction = "row" THEN SortByLeft(children) ELSE SortByTop(children),
             direction)))

\* the layout calculateLayout returns once the direction is known
LayoutOf(visibleChildren, direction) ==
    [direction |-> direction,
     wrap |-> IF direction = "row" /\ DetectWrap(visibleChildren)
              THEN "wrap" ELSE "nowrap",
     gap |-> CalculateGap(visibleChildren, direction),
     justifyContent |-> IF direction = "row" THEN "space-between" ELSE "flex-start",
     alignItems |-> IF direction = "row" THEN "flex-start" ELSE "stretch"]

LayoutOfVisible(visibleChildren) ==
    IF Len(visibleChildren) < 2
    THEN [direction |-> "column", wrap |-> "nowrap", gap |-> 0,
          justifyContent |-> "flex-start", alignItems |-> "stretch"]
    ELSE LayoutOf(visibleChildren, DetectFlexDirection(visibleChildren))

CalculateLayout(children) == LayoutOfVisible(GetVisibleChildren(children))

(***************************************************************************)
(* LayoutRelationshipHelper                                                *)
(***************************************************************************)
\* the coordinates of a center that are NaN: x under a NaN width, y under a
\* NaN height
CenterNaN(bounds) ==
    {f \in {"x"} : IsNaN(bounds, "width")} \cup {f \in {"y"} : IsNaN(bounds, "height")}

\* getCenter: {x: left + width / 2, y: top + height / 2}, kept doubled so
\* that the halves of odd sizes stay exact; as in a bounds record, a field nan
\* names the coordinates that are NaN
GetCenter(bounds) ==
    IF CenterNaN(bounds) = {}
    THEN [x2 |-> 2 * bounds.left + bounds.width, y2 |-> 2 * bounds.top + bounds.height]
    ELSE [x2 |-> 2 * bounds.left + bounds.width, y2 |-> 2 * bounds.top + bounds.height,
          nan |-> CenterNaN(bounds)]

\* a comparison with the x or the y of a center: false when it is NaN
CenterIsNaN(center, f) == "nan" \in DOMAIN center /\ f \in center.nan

\* getRelativePosition, had it tested the vertical position first
GetRelativePositionVerticalFirst(imageBounds, textBounds) ==
    LET imageCenter == GetCenter(imageBounds)
    IN  IF imageCenter.y2 < 2 * textBounds.top THEN "top"
        ELSE IF imageCenter.y2 > 2 * textBounds.bottom THEN "bottom"
        ELSE IF imageCenter.x2 < 2 * textBounds.left THEN "left"
        ELSE IF imageCenter.x2 > 2 * textBounds.right THEN "right"
        ELSE "overlapping"

GetRelativePosition(imageBounds, textBounds) ==
    LET imageCenter == GetCenter(imageBounds)
    IN  IF ~CenterIsNaN(imageCenter, "x") /\ imageCenter.x2 < 2 * textBounds.left
        THEN "left"
        ELSE IF ~CenterIsNaN(imageCenter, "x") /\ imageCenter.x2 > 2 * textBounds.right
        THEN "right"
        ELSE IF ~CenterIsNaN(imageCenter, "y") /\ imageCenter.y2 < 2 * textBounds.top
        THEN "top"
        ELSE IF ~CenterIsNaN(imageCenter, "y") /\ imageCenter.y2 > 2 * textBounds.bottom
        THEN "bottom"
        ELSE "overlapping"

\* the switch of inferFlexDirection
FlexDirectionOf(position) ==
    CASE position = "left" -> "row"
      [] position = "right" -> "row-reverse"
      [] position = "top" -> "column"
      [] position = "bottom" -> "column-reverse"
      [] OTHER -> "row"

InferFlexDirection(imageBounds, textBounds) ==
    FlexDirectionOf(GetRelativePosition(imageBounds, textBounds))

(***************************************************************************)
(* layerClassifier                                                         *)
(* A name is matched letter by letter: Spelling gives the characters of    *)
(* each layer name used below, and a pattern /^(w1|w2|...)[-_]?/i is the   *)
(* set of the words one of which must start the lowercased name ("a[-_]?b" *)
(* stands for the three words ab, a-b and a_b; the trailing optional       *)
(* separator never changes the outcome of test()).                         *)
(***************************************************************************)
COMPOSITE_WIDGETS == {"image-box", "icon-box", "icon-list"}

UpperCase == <<"A", "B", "C", "D", "E", "F", "G", "H", "I", "J", "K", "L", "M",
               "N", "O", "P", "Q", "R", "S", "T", "U", "V", "W", "X", "Y", "Z">>
LowerCase == <<"a", "b", "c", "d", "e", "f", "g", "h", "i", "j", "k", "l", "m",
               "n", "o", "p", "q", "r", "s", "t", "u", "v", "w", "x", "y", "z">>

Spelling(name) ==
    CASE name = "Header" -> <<"H", "e", "a", "d", "e", "r">>
      [] name = "Description" -> <<"D", "e", "s", "c", "r", "i", "p", "t", "i", "o", "n">>
      [] name = "Img" -> <<"I", "m", "g">>
      [] name = "Layer 1" -> <<"L", "a", "y", "e", "r", " ", "1">>
      [] name = "btn" -> <<"b", "t", "n">>
      [] name = "Shape 1" -> <<"S", "h", "a", "p", "e", " ", "1">>
      [] name = "Group 1" -> <<"G", "r", "o", "u", "p", " ", "1">>
      [] name = "Group 2" -> <<"G", "r", "o", "u", "p", " ", "2">>
      [] name = "Group 3" -> <<"G", "r", "o", "u", "p", " ", "3">>
      [] name = "Group 4" -> <<"G", "r", "o", "u", "p", " ", "4">>
      [] name = "Group 5" -> <<"G", "r", "o", "u", "p", " ", "5">>
      [] name = "Group 6" -> <<"G", "r", "o", "u", "p", " ", "6">>
      [] name = "Group 7" -> <<"G", "r", "o", "u", "p", " ", "7">>
      [] name = "card" -> <<"c", "a", "r", "d">>
      [] name = "Layer 5" -> <<"L", "a", "y", "e", "r", " ", "5">>
      [] name = "title_x" -> <<"t", "i", "t", "l", "e", "_", "x">>
      [] name = "desc_y" -> <<"d", "e", "s", "c", "_", "y">>
      [] name = "Title" -> <<"T", "i", "t", "l", "e">>
      [] name = "Layer 2" -> <<"L", "a", "y", "e", "r", " ", "2">>
      [] name = "Layer 3" -> <<"L", "a", "y", "e", "r", " ", "3">>
      [] name = "Layer 4" -> <<"L", "a", "y", "e", "r", " ", "4">>

\* name.toLowerCase()
ToLowerCase(chars) ==
    [i \in 1..Len(chars) |->
        IF \E k \in 1..Len(UpperCase) : UpperCase[k] = chars[i]
        THEN LowerCase[CHOOSE k \in 1..Len(UpperCase) : UpperCase[k] = chars[i]]
        ELSE chars[i]]

StartsWith(chars, word) ==
    Len(word) <= Len(chars) /\ SubSeq(chars, 1, Len(word)) = word

\* name.includes(keyword)
Includes(chars, word) ==
    \E k \in 0..(Len(chars) - Len(word)) : SubSeq(chars, k + 1, k + Len(word)) = word

PATTERNS ==
    [heading |->
        {<<"h", "e", "a", "d", "i", "n", "g">>,
         <<"t", "i", "t", "l", "e">>,
         <<"h", "1">>,
         <<"h", "2">>,
         <<"h", "3">>,
         <<"h", "4">>,
         <<"h", "5">>,
         <<"h", "6">>,
         <<"h", "e", "a", "d", "l", "i", "n", "e">>,
         <<"h", "e", "a", "d", "e", "r">>},
     button |->
        {<<"b", "t", "n">>,
         <<"b", "u", "t", "t", "o", "n">>,
         <<"c", "t", "a">>,
         <<"a", "c", "t", "i", "o", "n">>},
     image |->
        {<<"i", "m", "g">>,
         <<"i", "m", "a", "g", "e">>,
         <<"p", "h", "o", "t", "o">>,
         <<"p", "i", "c", "t", "u", "r", "e">>,
         <<"p", "i", "c">>,
         <<"b", "a", "n", "n", "e", "r">>,
         <<"h", "e", "r", "o">>},
     text |->
        {<<"t", "e", "x", "t">>,
         <<"p", "a", "r", "a", "g", "r", "a", "p", "h">>,
         <<"d", "e", "s", "c">>,
         <<"d", "e", "s", "c", "r", "i", "p", "t", "i", "o", "n">>,
         <<"b", "o", "d", "y">>,
         <<"c", "o", "n", "t", "e", "n", "t">>,
         <<"p">>},
     iconBox |->
        {<<"i", "c", "o", "n", "b", "o", "x">>,
         <<"i", "c", "o", "n", "-", "b", "o", "x">>,
         <<"i", "c", "o", "n", "_", "b", "o", "x">>,
         <<"f", "e", "a", "t", "u", "r", "e", "b", "o", "x">>,
         <<"f", "e", "a", "t", "u", "r", "e", "-", "b", "o", "x">>,
         <<"f", "e", "a", "t", "u", "r", "e", "_", "b", "o", "x">>,
         <<"s", "e", "r", "v", "i", "c", "e">>},
     imageBox |->
        {<<"i", "m", "a", "g", "e", "b", "o", "x">>,
         <<"i", "m", "a", "g", "e", "-", "b", "o", "x">>,
         <<"i", "m", "a", "g", "e", "_", "b", "o", "x">>,
         <<"c", "a", "r", "d">>,
         <<"p", "r", "o", "d", "u", "c", "t">>,
         <<"i", "t", "e", "m">>,
         <<"b", "l", "o", "g", "p", "o", "s", "t">>,
         <<"b", "l", "o", "g", "-", "p", "o", "s", "t">>,
         <<"b", "l", "o", "g", "_", "p", "o", "s", "t">>},
     iconList |->
        {<<"i", "c", "o", "n", "l", "i", "s", "t">>,
         <<"i", "c", "o", "n", "-", "l", "i", "s", "t">>,
         <<"i", "c", "o", "n", "_", "l", "i", "s", "t">>,
         <<"l", "i", "s", "t">>,
         <<"m", "e", "n", "u">>,
         <<"n", "a", "v">>,
         <<"f", "e", "a", "t", "u", "r", "e", "s">>,
         <<"b", "u", "l", "l", "e", "t", "s">>},
     container |->
        {<<"c", "o", "n", "t", "a", "i", "n", "e", "r">>,
         <<"s", "e", "c", "t", "i", "o", "n">>,
         <<"r", "o", "w">>,
         <<"w", "r", "a", "p", "p", "e", "r">>,
         <<"b", "o", "x">>,
         <<"g", "r", "o", "u", "p">>,
         <<"b", "l", "o", "c", "k">>}]

\* PATTERNS[pattern].test(name)
Test(pattern, chars) == \E word \in PATTERNS[pattern] : StartsWith(chars, word)

HeadingKeywords ==
    {<<"t", "i", "t", "l", "e">>, <<"h", "e", "a", "d", "i", "n", "g">>, <<"h", "e", "a", "d", "e", "r">>, <<"h", "e", "a", "d", "l", "i", "n", "e">>, <<"n", "a", "m", "e">>}

ButtonKeywords ==
    {<<"b", "t", "n">>, <<"b", "u", "t", "t", "o", "n">>, <<"c", "t", "a">>, <<"c", "l", "i", "c", "k">>, <<"s", "u", "b", "m", "i", "t">>, <<"a", "c", "t", "i", "o", "n">>}

\* BADGE_CLASSES[widgetType] || 'container'
BadgeClassOf(widgetType) ==
    CASE widgetType = "text-editor" -> "text"
      [] widgetType \in {"container", "heading", "button", "image",
                         "image-box", "icon-box", "icon-list"} -> widgetType
      [] OTHER -> "container"

IsHeadingName(chars) == \E keyword \in HeadingKeywords : Includes(chars, keyword)

\* isButtonShape(layer, name): a button keyword in the name, or
\* ratio = width / height within [2, 6] and height <= 80
LayerIsButtonShape(layer, chars) ==
    \/ \E keyword \in ButtonKeywords : Includes(chars, keyword)
    \/ /\ ~Falsy(layer.bounds, "width")
       /\ ~Falsy(layer.bounds, "height")
       /\ RatioWithin(layer.bounds.width, layer.bounds.height, 2, 6)
       /\ layer.bounds.height <= 80

\* determineWidgetType once the name is lowercased
WidgetTypeByName(layer, chars) ==
    IF Test("button", chars) THEN "button"
    ELSE IF Test("heading", chars) THEN "heading"
    ELSE IF Test("iconBox", chars) THEN "icon-box"
    ELSE IF Test("imageBox", chars) THEN "image-box"
    ELSE IF Test("iconList", chars) THEN "icon-list"
    ELSE IF Test("text", chars) THEN "text-editor"
    ELSE IF Test("image", chars) THEN "image"
    ELSE IF Test("container", chars) THEN "container"
    ELSE IF layer.type = "group" THEN "container"
    ELSE IF layer.type = "text"
         THEN IF FontSizeOf(layer) >= 24 \/ IsHeadingName(chars)
              THEN "heading" ELSE "text-editor"
    ELSE IF layer.type \in {"image", "shape"}
         THEN IF LayerIsButtonShape(layer, chars) THEN "button" ELSE "image"
    ELSE "container"

DetermineWidgetType(layer) ==
    WidgetTypeByName(layer, ToLowerCase(Spelling(layer.name)))

\* null, the value detectCompositeWidget returns when no pattern applies
NoComposite == "null"

TypesOf(children) == [i \in 1..Len(children) |-> children[i].widgetType]

Has(types, t) == \E i \in 1..Len(types) : types[i] = t

TextCount(types) ==
    Cardinality({i \in 1..Len(types) : types[i] \in {"text-editor", "heading"}})

\* the pattern rules of detectCompositeWidget, without the suppression by
\* complex children
CompositeOfTypesUnsuppressed(types) ==
    IF Has(types, "image") /\ Has(types, "heading") THEN "image-box"
    ELSE IF TextCount(types) >= 3 /\ ~Has(types, "image") THEN "icon-list"
    ELSE IF Has(types, "heading") /\ Has(types, "text-editor") /\ ~Has(types, "image")
         THEN "icon-box"
    ELSE NoComposite

\* detectCompositeWidget, had it looked for an icon box before an icon list
CompositeOfTypesIconBoxFirst(types) ==
    IF \E i \in 1..Len(types) :
          types[i] \in {"image-box", "icon-box", "icon-list", "container", "button"}
    THEN NoComposite
    ELSE IF Has(types, "image") /\ Has(types, "heading") THEN "image-box"
    ELSE IF Has(types, "heading") /\ Has(types, "text-editor") /\ ~Has(types, "image")
         THEN "icon-box"
    ELSE IF TextCount(types) >= 3 /\ ~Has(types, "image") THEN "icon-list"
    ELSE NoComposite

CompositeOfTypes(types) ==
    IF \E i \in 1..Len(types) :
          types[i] \in {"image-box", "icon-box", "icon-list", "container", "button"}
    THEN NoComposite
    ELSE IF Has(types, "image") /\ Has(types, "heading") THEN "image-box"
    ELSE IF TextCount(types) >= 3 /\ ~Has(types, "image") THEN "icon-list"
    ELSE IF Has(types, "heading") /\ Has(types, "text-editor") /\ ~Has(types, "image")
         THEN "icon-box"
    ELSE NoComposite

DetectCompositeWidget(children) ==
    IF Len(children) = 0 THEN NoComposite
    ELSE CompositeOfTypes(TypesOf(children))

\* isComposite is set on the groups classifyLayer turns into a composite
IsComposite(layer) == "isComposite" \in DOMAIN layer /\ layer.isComposite

\* the classified layer, given its own type, its classified children and what
\* detectCompositeWidget says of them
WithComposite(layer, widgetType, children, compositeType) ==
    IF compositeType # NoComposite /\ widgetType = "container"
    THEN [widgetType |-> compositeType,
          badgeClass |-> BadgeClassOf(compositeType),
          isComposite |-> TRUE,
          children |-> children] @@ layer
    ELSE [widgetType |-> widgetType,
          badgeClass |-> BadgeClassOf(widgetType),
          children |-> children] @@ layer

WithChildren(layer, widgetType, children) ==
    WithComposite(layer, widgetType, children, DetectCompositeWidget(children))

RECURSIVE ClassifyLayer(_)
ClassifyTyped(layer, widgetType) ==
    IF Len(layer.children) > 0 /\ widgetType \notin COMPOSITE_WIDGETS
    THEN WithChildren(layer, widgetType,
                      [i \in 1..Len(layer.children) |-> ClassifyLayer(layer.children[i])])
    ELSE [widgetType |-> widgetType, badgeClass |-> BadgeClassOf(widgetType)] @@ layer

ClassifyLayer(layer) == ClassifyTyped(layer, DetermineWidgetType(layer))

ClassifyLayers(ls) == [i \in 1..Len(ls) |-> ClassifyLayer(ls[i])]

(***************************************************************************)
(* ImageBoxContentClassifier                                               *)
(* A child is a record [id, name, type, hasImage, bounds] with, when the   *)
(* parser extracted it, textInfo = [text, fontSize, fontWeight]; a text is *)
(* the sequence of its characters.                                         *)
(***************************************************************************)
NAME_PATTERNS ==
    [heading |->
        {<<"h", "e", "a", "d", "i", "n", "g">>,
         <<"t", "i", "t", "l", "e">>,
         <<"h", "1">>,
         <<"h", "2">>,
         <<"h", "3">>,
         <<"h", "4">>,
         <<"h", "5">>,
         <<"h", "6">>,
         <<"h", "e", "a", "d", "l", "i", "n", "e">>,
         <<"h", "e", "a", "d", "e", "r">>,
         <<"n", "a", "m", "e">>},
     description |->
        {<<"d", "e", "s", "c">>,
         <<"d", "e", "s", "c", "r", "i", "p", "t", "i", "o", "n">>,
         <<"t", "e", "x", "t">>,
         <<"p", "a", "r", "a", "g", "r", "a", "p", "h">>,
         <<"b", "o", "d", "y">>,
         <<"c", "o", "n", "t", "e", "n", "t">>,
         <<"s", "u", "b", "t", "i", "t", "l", "e">>,
         <<"s", "u", "b", "t", "i", "t", "l", "e">>,
         <<"s", "u", "b", "-", "t", "i", "t", "l", "e">>,
         <<"s", "u", "b", "_", "t", "i", "t", "l", "e">>,
         <<"i", "n", "f", "o">>},
     image |->
        {<<"i", "m", "g">>,
         <<"i", "m", "a", "g", "e">>,
         <<"p", "h", "o", "t", "o">>,
         <<"p", "i", "c", "t", "u", "r", "e">>,
         <<"p", "i", "c">>,
         <<"i", "c", "o", "n">>,
         <<"l", "o", "g", "o">>,
         <<"t", "h", "u", "m", "b">>,
         <<"t", "h", "u", "m", "b", "n", "a", "i", "l">>}]

\* NAME_PATTERNS[pattern].test(name), case-insensitive
NameTest(pattern, name) ==
    \E word \in NAME_PATTERNS[pattern] : StartsWith(ToLowerCase(Spelling(name)), word)

\* null
Null == [isNull |-> TRUE]

\* TextStyleExtractor.extract(undefined): the style of an empty textData
ExtractedTextInfo == [text |-> <<>>, fontSize |-> 16, fontWeight |-> "normal"]

\* child.textInfo ??= TextStyleExtractor.extract(child.textData), which writes
\* into the child object itself
WithTextInfo(child) ==
    IF child.type = "text" /\ "textInfo" \notin DOMAIN child
    THEN [textInfo |-> ExtractedTextInfo] @@ child
    ELSE child

\* the children objects after the loop of classify
ChildrenAfterClassify(children) ==
    [i \in 1..Len(children) |-> WithTextInfo(children[i])]

\* #pickImage
PickImage(imageLayers) ==
    IF Len(imageLayers) = 0 THEN Null
    ELSE IF \E i \in 1..Len(imageLayers) : NameTest("image", imageLayers[i].name)
         THEN imageLayers[CHOOSE i \in 1..Len(imageLayers) :
                             /\ NameTest("image", imageLayers[i].name)
                             /\ \A k \in 1..(i - 1) :
                                   ~NameTest("image", imageLayers[k].name)]
         ELSE imageLayers[1]

\* text.split('\n').length
LinesOf(text) == Cardinality({i \in 1..Len(text) : text[i] = "\n"}) + 1

\* #scoreLayer
ScoreOf(layer) ==
    (IF NameTest("heading", layer.name) THEN 50 ELSE 0)
    - (IF NameTest("description", layer.name) THEN 50 ELSE 0)
    + (IF layer.textInfo.fontSize >= 24 THEN 30
       ELSE IF layer.textInfo.fontSize >= 20 THEN 20
       ELSE IF layer.textInfo.fontSize >= 18 THEN 10
       ELSE IF layer.textInfo.fontSize <= 14 THEN -20
       ELSE 0)
    + (IF layer.textInfo.fontWeight = "bold" THEN 15 ELSE 0)
    + (IF Len(layer.textInfo.text) <= 50 THEN 10
       ELSE IF Len(layer.textInfo.text) > 100 THEN -15
       ELSE 0)
    + (IF LinesOf(layer.textInfo.text) = 1 THEN 10
       ELSE IF LinesOf(layer.textInfo.text) > 2 THEN -10
       ELSE 0)

ScoreLayer(layer) ==
    [layer |-> layer, score |-> ScoreOf(layer), top |-> layer.bounds.top]

\* scored.sort((a, b) => b.score - a.score)
SortByScore(scored) ==
    Vals(SortByKey([i \in 1..Len(scored) |->
                       [key |-> 0 - scored[i].score, val |-> scored[i]]]))

\* [...scored].sort((a, b) => a.top - b.top)
SortScoredByTop(scored) ==
    Vals(SortByKey([i \in 1..Len(scored) |->
                       [key |-> scored[i].top, val |-> scored[i]]]))

PickSecondAsDescription(scored) ==
    IF Len(scored) > 1 /\ scored[1].score = scored[2].score
    THEN [heading |-> SortScoredByTop(scored)[1].layer,
          description |-> SortScoredByTop(scored)[Len(scored)].layer]
    ELSE [heading |-> scored[1].layer, description |-> scored[2].layer]

\* heading and description picked from the layers sorted by score
PickFromSorted(scored) ==
    IF Len(scored) > 1 /\ scored[1].score = scored[2].score
    THEN [heading |-> SortScoredByTop(scored)[1].layer,
          description |-> SortScoredByTop(scored)[Len(scored)].layer]
    ELSE [heading |-> scored[1].layer, description |-> scored[Len(scored)].layer]

\* #classifyTextLayers
ClassifyTextLayers(textLayers) ==
    PickFromSorted(SortByScore([i \in 1..Len(textLayers) |->
                                   ScoreLayer(textLayers[i])]))

\* #assignSingleText, with headingFontSize: 18
AssignSingleText(layer) ==
    IF layer.textInfo.fontSize >= 18 \/ NameTest("heading", layer.name)
    THEN [heading |-> layer, description |-> Null]
    ELSE [heading |-> Null, description |-> layer]

\* the heading and the description among the text layers
TextRoles(textLayers) ==
    IF Len(textLayers) = 1 THEN AssignSingleText(textLayers[1])
    ELSE IF Len(textLayers) > 1 THEN ClassifyTextLayers(textLayers)
    ELSE [heading |-> Null, description |-> Null]

\* the result of classify, on the children as the loop left them
ClassifyPrepared(children) ==
    [image |-> PickImage(SelectSeq(children,
                                   LAMBDA c : c.type = "image" \/ c.hasImage))]
    @@ TextRoles(SelectSeq(children, LAMBDA c : c.type = "text"))

\* classify(children)
ClassifyImageBox(children) == ClassifyPrepared(ChildrenAfterClassify(children))

(***************************************************************************)
(* elementorGenerator and the widget templates                             *)
(* An element is a record [elType, widgetType, elements] plus, for a       *)
(* container, the flex settings taken from calculateLayout.                *)
(***************************************************************************)
Widget(widgetType) ==
    [elType |-> "widget", widgetType |-> widgetType, elements |-> <<>>]

\* layer.children || []
ChildrenOf(layer) == IF "children" \in DOMAIN layer THEN layer.children ELSE <<>>

\* layer.widgetType, undefined on a layer that was never classified
WidgetTypeOf(layer) ==
    IF "widgetType" \in DOMAIN layer THEN layer.widgetType ELSE "undefined"

ContainerOf(layout, elements) ==
    [elType |-> "container",
     flex_direction |-> layout.direction,
     flex_justify_content |-> layout.justifyContent,
     flex_align_items |-> layout.alignItems,
     flex_wrap |-> layout.wrap,
     elements |-> elements]

CreateContainer(layer) == ContainerOf(CalculateLayout(ChildrenOf(layer)), <<>>)

CreateEmptyContainer(layer) ==
    [elType |-> "container", content_width |-> "full", elements |-> <<>>]

\* createImageBoxWidget reads .bounds of the image, the heading and the
\* description ImageBoxContentClassifier.classify picked among layer.children.
\* The image is null without a child of type image or with hasImage; with one
\* text child either the heading or the description is null, with none both
\* are: reading .bounds of null throws a TypeError.
CreateImageBoxWidget(layer) ==
    IF /\ \E i \in 1..Len(ChildrenOf(layer)) :
             ChildrenOf(layer)[i].type = "image" \/ ChildrenOf(layer)[i].hasImage
       /\ Cardinality({i \in 1..Len(ChildrenOf(layer)) :
                          ChildrenOf(layer)[i].type = "text"}) >= 2
    THEN Returned(Widget("image-box"))
    ELSE Threw

GenerateWidget(layer) ==
    CASE WidgetTypeOf(layer) \in {"heading", "text-editor", "button", "image",
                                  "icon-box", "icon-list"} ->
             Returned(Widget(WidgetTypeOf(layer)))
      [] WidgetTypeOf(layer) = "image-box" -> CreateImageBoxWidget(layer)
      [] OTHER -> Returned(CreateEmptyContainer(layer))

\* container.elements = the generated children, unless one of them threw
WithElements(container, results) ==
    IF AnyThrew(results) THEN Threw
    ELSE Returned([container EXCEPT !.elements = Values(results)])

RECURSIVE GenerateElement(_)
GenerateContainer(layer) ==
    IF Len(ChildrenOf(layer)) > 0
    THEN WithElements(
             CreateContainer(layer),
             [i \in 1..Len(layer.children) |->
                 IF \/ WidgetTypeOf(layer.children[i]) = "container"
                    \/ /\ Len(ChildrenOf(layer.children[i])) > 0
                       /\ ~IsComposite(layer.children[i])
                 THEN GenerateElement(layer.children[i])
                 ELSE GenerateWidget(layer.children[i])])
    ELSE Returned(CreateContainer(layer))

GenerateCompositeWidget(layer) ==
    CASE WidgetTypeOf(layer) = "image-box" -> CreateImageBoxWidget(layer)
      [] WidgetTypeOf(layer) \in {"icon-box", "icon-list"} ->
             Returned(Widget(WidgetTypeOf(layer)))
      [] OTHER -> GenerateContainer(layer)

GenerateElement(layer) ==
    IF IsComposite(layer) THEN GenerateCompositeWidget(layer)
    ELSE IF WidgetTypeOf(layer) = "container" \/ Len(ChildrenOf(layer)) > 0
         THEN GenerateContainer(layer)
    ELSE GenerateWidget(layer)

\* createContainer({id, name: 'Auto Container', depth: 0}) filled with the
\* buffered widgets
CreateWrapperContainer(widgets) ==
    WithElements(ContainerOf(CalculateLayout(<<>>), <<>>),
                 [i \in 1..Len(widgets) |-> GenerateWidget(widgets[i])])

\* result.push(element), unless generating it threw
RECURSIVE WrapLoop(_, _, _)
PushThen(r, todo, result, widgetBuffer) ==
    IF r.threw THEN Threw
    ELSE WrapLoop(todo, Append(result, r.value), widgetBuffer)

\* the loop of wrapInContainers and the final flush of the buffer
WrapLoop(todo, result, widgetBuffer) ==
    IF todo = <<>>
    THEN IF Len(widgetBuffer) > 0
         THEN PushThen(CreateWrapperContainer(widgetBuffer), <<>>, result, <<>>)
         ELSE Returned(result)
    ELSE IF \/ WidgetTypeOf(Head(todo)) = "container"
            \/ IsComposite(Head(todo))
            \/ Len(ChildrenOf(Head(todo))) > 0 /\ ~IsComposite(Head(todo))
         THEN IF Len(widgetBuffer) > 0
              THEN PushThen(CreateWrapperContainer(widgetBuffer), todo, result, <<>>)
              ELSE PushThen(GenerateElement(Head(todo)), Tail(todo), result, <<>>)
         ELSE WrapLoop(Tail(todo), result, Append(widgetBuffer, Head(todo)))

WrapInContainers(ls) == WrapLoop(ls, <<>>, <<>>)

\* the template generateElementorJson returns around the content
TemplateOf(content) ==
    IF content.threw THEN Threw
    ELSE Returned([content |-> content.value, page_settings |-> <<>>,
                   version |-> "0.4", type |-> "page"])

GenerateElementorJson(ls) == TemplateOf(WrapInContainers(ls))

\* child.textInfo ??= TextStyleExtractor.extract(child.textData) on a layer of
\* the classified tree: a text layer without textInfo is given the style of
\* an empty textData
WithExtractedTextInfo(child) ==
    IF child.type = "text" /\ ~child.hasTextInfo
    THEN [child EXCEPT !.hasTextInfo = TRUE,
                       !.fontSize = ExtractedTextInfo.fontSize,
                       !.text = ""]
    ELSE child

\* the layer after createImageBoxWidget(layer): classify has run over its
\* children before any .bounds of its result is read
AfterCreateImageBoxWidget(layer) ==
    IF "children" \in DOMAIN layer
    THEN [layer EXCEPT !.children =
             [i \in 1..Len(layer.children) |-> WithExtractedTextInfo(layer.children[i])]]
    ELSE layer

AfterGenerateWidget(layer) ==
    IF WidgetTypeOf(layer) = "image-box" THEN AfterCreateImageBoxWidget(layer)
    ELSE layer

\* whether generateContainer hands a child to generateElement
IsNested(child) ==
    \/ WidgetTypeOf(child) = "container"
    \/ Len(ChildrenOf(child)) > 0 /\ ~IsComposite(child)

\* The layer objects after generateElement(layer) has returned or thrown.
\* children.map stops at the first child whose generation throws: the
\* children after it are not reached.
RECURSIVE AfterGenerateElement(_)
AfterGenerateChild(children, i) ==
    IF \E j \in 1..(i - 1) :
          (IF IsNested(children[j]) THEN GenerateElement(children[j])
           ELSE GenerateWidget(children[j])).threw
    THEN children[i]
    ELSE IF IsNested(children[i]) THEN AfterGenerateElement(children[i])
    ELSE AfterGenerateWidget(children[i])

AfterGenerateContainer(layer) ==
    IF Len(ChildrenOf(layer)) > 0
    THEN [layer EXCEPT !.children =
             [i \in 1..Len(layer.children) |-> AfterGenerateChild(layer.children, i)]]
    ELSE layer

AfterGenerateElement(layer) ==
    IF IsComposite(layer)
    THEN IF WidgetTypeOf(layer) = "image-box" THEN AfterCreateImageBoxWidget(layer)
         ELSE IF WidgetTypeOf(layer) \in {"icon-box", "icon-list"} THEN layer
         ELSE AfterGenerateContainer(layer)
    ELSE IF WidgetTypeOf(layer) = "container" \/ Len(ChildrenOf(layer)) > 0
         THEN AfterGenerateContainer(layer)
    ELSE AfterGenerateWidget(layer)

\* whether wrapInContainers hands a top-level layer to generateElement; the
\* others are buffered and generated by generateWidget before the next such
\* layer, so that the layers are generated in their order
IsWrapped(layer) ==
    \/ WidgetTypeOf(layer) = "container"
    \/ IsComposite(layer)
    \/ Len(ChildrenOf(layer)) > 0 /\ ~IsComposite(layer)

\* The classified layers after generateElementorJson(layers, metadata) has
\* returned or thrown: the layers up to the first one whose generation
\* throws have been through classify.
LayersAfterGenerate(ls) ==
    [i \in 1..Len(ls) |->
        IF \E j \in 1..(i - 1) :
              (IF IsWrapped(ls[j]) THEN GenerateElement(ls[j])
               ELSE GenerateWidget(ls[j])).threw
        THEN ls[i]
        ELSE IF IsWrapped(ls[i]) THEN AfterGenerateElement(ls[i])
        ELSE AfterGenerateWidget(ls[i])]

(***************************************************************************)
(* Specification of clusterByProximity                                     *)
(***************************************************************************)
\* boxes of 10 x 10 laid on a grid with gaps of 5: x = [0,10], [15,25], ...
GridBoxes ==
    {Bounds(r * 15, c * 15, c * 15 + 10, r * 15 + 10) :
        r \in 0..(GridRows - 1), c \in 0..(GridCols - 1)}

Thresholds == {-1, 0, 2, 6, 10}

\* layer i of the list carries id i; ids are unique as generateId makes them
MkLayers(boxes) == [i \in 1..Len(boxes) |-> [id |-> i, bounds |-> boxes[i]]]

ClusterInputs == {MkLayers(bs) : bs \in SeqsUpTo(GridBoxes, MaxLayers)}

IdleCluster == layers = <<>> /\ threshold = 0 /\ clusters = <<>> /\ boundsResult = <<>>
IdleAdapter ==
    /\ rawLayers = <<>> /\ canvasWidth = 0 /\ rawResult = <<>>
    /\ rawLayersAfter = <<>> /\ rawResultAgain = <<>> /\ reclustered = <<>>
    /\ rawResultIds = <<>> /\ idsDrawn = 0
IdleInfer == inferCluster = <<>> /\ inferred = <<>>
IdleClassify == psdLayers = <<>> /\ classifiedLayers = <<>> /\ elementorJson = <<>>
IdleImageBox == boxChildren = <<>> /\ boxResult = <<>> /\ boxChildrenAfter = <<>>
IdleRows == rowClusters = <<>> /\ rowsResult = <<>> /\ boundaries = <<>>
IdleRelative ==
    /\ relImage = <<>> /\ relText = <<>> /\ positionResult = "" /\ flexResult = ""
IdleEditor == treeStart = <<>> /\ treeLayers = <<>> /\ lastCall = <<>>
IdleApp == appState = <<>> /\ handlers = <<>> /\ previewLayers = <<>>
IdleDistance == boxA = <<>> /\ boxB = <<>> /\ distance = 0
IdleLayout ==
    /\ layoutChildren = <<>> /\ gapDirection = "" /\ gapResult = 0
    /\ directionResult = "" /\ layoutResult = <<>>

InitCluster ==
    /\ pc = "cluster_input"
    /\ layers \in ClusterInputs
    /\ threshold \in Thresholds
    /\ clusters = <<>>
    /\ boundsResult = <<>>
    /\ IdleAdapter /\ IdleInfer /\ IdleClassify /\ IdleLayout /\ IdleDistance /\ IdleImageBox /\ IdleRows /\ IdleRelative /\ IdleEditor /\ IdleApp

DoClusterByProximity ==
    /\ pc = "cluster_input"
    /\ clusters' = ClusterByProximity(layers, threshold)
    /\ pc' = "cluster_done"
    /\ UNCHANGED <<layers, threshold, boundsResult, adapterVars, inferVars, classifyVars,
                   layoutVars, distanceVars, imageBoxVars, rowVars, relativeVars,
                   editorVars, appVars>>

\* calculateClusterBounds called on the layer list as one cluster
DoCalculateClusterBounds ==
    /\ pc = "cluster_input"
    /\ boundsResult' = CalculateClusterBounds(layers)
    /\ pc' = "bounds_done"
    /\ UNCHANGED <<layers, threshold, clusters, adapterVars, inferVars, classifyVars,
                   layoutVars, distanceVars, imageBoxVars, rowVars, relativeVars,
                   editorVars, appVars>>

NextCluster == DoClusterByProximity \/ DoCalculateClusterBounds

SpecCluster == InitCluster /\ [][NextCluster]_vars

(***************************************************************************)
(* Specification of RawPSDAdapter.processLayers                            *)
(***************************************************************************)
TextLeaf(name, fontSize, text, bounds, visible) ==
    [id |-> 0, name |-> name, type |-> "text", visible |-> visible, bounds |-> bounds,
     hasTextInfo |-> TRUE, fontSize |-> fontSize, text |-> text, hasImage |-> FALSE,
     children |-> <<>>]

ImageLeaf(name, type, bounds, visible) ==
    [id |-> 0, name |-> name, type |-> type, visible |-> visible, bounds |-> bounds,
     hasTextInfo |-> FALSE, fontSize |-> 0, text |-> "", hasImage |-> TRUE,
     children |-> <<>>]

\* calculateBoundsFromChildren: the box around the children that have one (a
\* child whose width and height are both 0 is skipped), null when there is
\* no such child
CalculateBoundsFromChildren(children) ==
    LET HasBox(child) ==
            \/ IsNaN(child.bounds, "width") \/ child.bounds.width # 0
            \/ IsNaN(child.bounds, "height") \/ child.bounds.height # 0
        boxed == SelectSeq(children, HasBox)
    IN  IF boxed = <<>> THEN Null
        ELSE Bounds(SeqMin([i \in 1..Len(boxed) |-> boxed[i].bounds.top]),
                    SeqMin([i \in 1..Len(boxed) |-> boxed[i].bounds.left]),
                    SeqMax([i \in 1..Len(boxed) |-> boxed[i].bounds.right]),
                    SeqMax([i \in 1..Len(boxed) |-> boxed[i].bounds.bottom]))

\* a group as the extractLayers that calls calculateBoundsFromChildren returns
\* it: the box the decoder read (decoded) is replaced by the one calculated
\* from the children unless that is null; visible is !layer.hidden
GroupLayer(name, kids, decoded, visible) ==
    [id |-> 0, name |-> name, type |-> "group", visible |-> visible,
     bounds |-> IF CalculateBoundsFromChildren(kids) = Null THEN decoded
                ELSE CalculateBoundsFromChildren(kids),
     hasTextInfo |-> FALSE, fontSize |-> 0, text |-> "", hasImage |-> FALSE,
     children |-> kids]

\* a group as the extractLayers of parsers/psdParser.js returns it, which
\* keeps the box the decoder read whatever the children are; also what a
\* caller of processLayers or classifyLayers may pass
BoxedGroup(name, kids, bounds, visible) ==
    [id |-> 0, name |-> name, type |-> "group", visible |-> visible,
     bounds |-> bounds,
     hasTextInfo |-> FALSE, fontSize |-> 0, text |-> "", hasImage |-> FALSE,
     children |-> kids]

\* a layer without pixels, which the decoder gives an empty box
EmptyImage == [ImageLeaf("Layer 8", "image", Bounds(0, 0, 0, 0), TRUE) EXCEPT !.id = 5]

\* bounds whose width the decoder computed as NaN
NaNWidth(bounds) == [nan |-> {"width"}] @@ bounds

\* leaves as the parser hands them over: a heading and a body text 10px below
\* it, a picture 50px to the right, texts far to the right and far below, an
\* icon, a hidden layer, a layer of zero width and a layer of NaN width
AdapterLeaves ==
    {TextLeaf("Layer 1", 28, "Welcome", Bounds(0, 0, 100, 20), TRUE),
     TextLeaf("Layer 2", 14, "Lorem ipsum", Bounds(30, 0, 100, 50), TRUE),
     ImageLeaf("Layer 3", "image", Bounds(0, 150, 270, 120), TRUE),
     TextLeaf("Layer 4", 14, "Side note", Bounds(0, 400, 500, 20), TRUE),
     TextLeaf("Layer 5", 14, "Footer", Bounds(600, 0, 100, 620), TRUE),
     ImageLeaf("Layer 6", "image", Bounds(60, 0, 40, 100), TRUE),
     TextLeaf("Layer 7", 28, "Hidden", Bounds(0, 0, 100, 20), FALSE),
     ImageLeaf("Layer 8", "shape", Bounds(0, 0, 0, 20), TRUE),
     TextLeaf("Layer 9", 14, "Broken", NaNWidth(Bounds(0, 0, 100, 20)), TRUE)}

\* the parser gives every layer its own id
WithIds(ls) == [i \in 1..Len(ls) |-> [ls[i] EXCEPT !.id = i]]

\* a canvas narrower than the widest layers, and a wide one
CanvasWidths == {300, 1200}

\* three layers near one another and a text far to the right: the smallest
\* inputs whose tree holds a cluster of three layers (a lone cluster makes
\* processLayers throw)
NearLeaves ==
    {TextLeaf("Layer 2", 14, "Lorem ipsum", Bounds(30, 0, 100, 50), TRUE),
     ImageLeaf("Layer 3", "image", Bounds(0, 150, 270, 120), TRUE),
     ImageLeaf("Layer 6", "image", Bounds(60, 0, 40, 100), TRUE)}

DeepInputs ==
    {WithIds(<<a, b, c, TextLeaf("Layer 4", 14, "Side note", Bounds(0, 400, 500, 20), TRUE)>>) :
        a \in NearLeaves, b \in NearLeaves, c \in NearLeaves}

\* processLayers also takes layers that carry no id (layer.id ||
\* generateId()): here the first layer of a list
WithoutFirstId(ls) == [ls EXCEPT ![1].id = 0]

AdapterInputs ==
    LET lists == {WithIds(ls) : ls \in SeqsUpTo(AdapterLeaves, MaxLayers)}
    IN  lists \cup DeepInputs \cup
        {WithoutFirstId(ls) : ls \in {l \in lists \cup DeepInputs : Len(l) > 1}} \cup
        {<<[GroupLayer("Group 1", ls, Bounds(0, 0, 0, 0), TRUE) EXCEPT !.id = Len(ls) + 1]>> :
            ls \in {l \in lists : Len(l) > 0}} \cup
        {<<[BoxedGroup("Group 1", ls, Bounds(0, 0, 10, 10), visible)
               EXCEPT !.id = Len(ls) + 1]>> :
            ls \in {l \in lists : Len(l) \in {1, 2}}, visible \in BOOLEAN} \cup
        {<<[GroupLayer("Group 1", <<EmptyImage>> \o ls, Bounds(10, 10, 50, 50), FALSE)
               EXCEPT !.id = Len(ls) + 1],
           [ls[1] EXCEPT !.id = Len(ls) + 2]>> :
            ls \in {l \in lists : Len(l) = 2}} \cup
        {<<[GroupLayer("Group 1", <<EmptyImage>>, Bounds(10, 10, 50, 50), TRUE)
               EXCEPT !.id = Len(ls) + 1]>> \o ls :
            ls \in {l \in lists : Len(l) = 2}}

InitAdapter ==
    /\ pc = "adapter_input"
    /\ rawLayers \in AdapterInputs
    /\ canvasWidth \in CanvasWidths
    /\ rawResult = <<>>
    /\ rawLayersAfter = <<>>
    /\ rawResultAgain = <<>>
    /\ rawResultIds = <<>>
    /\ idsDrawn = 0
    /\ reclustered = <<>>
    /\ IdleCluster /\ IdleInfer /\ IdleClassify /\ IdleLayout /\ IdleDistance /\ IdleImageBox /\ IdleRows /\ IdleRelative /\ IdleEditor /\ IdleApp

\* rawResult keeps 0 in place of every generated identifier; rawResultIds is
\* the same call with the identifiers the mocked generateId hands out
DoProcessLayers ==
    /\ pc = "adapter_input"
    /\ rawResult' = ProcessLayers(rawLayers, canvasWidth)
    /\ LET run == ProcessLayersMocked(rawLayers, canvasWidth, idsDrawn)
       IN  /\ rawResultIds' = run.outcome
           /\ idsDrawn' = run.drawn
           /\ rawLayersAfter' = LayersAfterProcess(rawLayers, run.outcome)
    /\ pc' = "adapter_done"
    /\ UNCHANGED <<rawLayers, canvasWidth, rawResultAgain, reclustered, clusterVars, inferVars,
                   classifyVars, layoutVars, distanceVars, imageBoxVars,
                   rowVars, relativeVars, editorVars, appVars>>

\* A second call of processLayers on the same array.  Either the mock is
\* installed anew before it, so that generateId replays its sequence, or the
\* generator goes on from where the first call left it.
DoProcessLayersAgain ==
    /\ pc = "adapter_done"
    /\ \E replay \in BOOLEAN :
          LET run == ProcessLayersMocked(rawLayersAfter, canvasWidth,
                                         IF replay THEN 0 ELSE idsDrawn)
          IN  /\ rawResultAgain' = [replayed |-> replay, outcome |-> run.outcome]
              /\ idsDrawn' = run.drawn
    /\ pc' = "adapter_again"
    /\ UNCHANGED <<rawLayers, canvasWidth, rawResult, rawLayersAfter, rawResultIds,
                   reclustered, clusterVars,
                   inferVars, classifyVars, layoutVars, distanceVars, imageBoxVars,
                   rowVars, relativeVars, editorVars, appVars>>

\* the thresholds processLayers and subClusterLayers cluster at, and a
\* smaller one
ReclusterThresholds == {10, (PROXIMITY_THRESHOLD * 6) \div 10, PROXIMITY_THRESHOLD}

\* clusterByProximity on the valid leaves, then again on each cluster it
\* returned, at the same threshold; and subClusterLayers on the valid leaves,
\* then again on each sub-cluster, as processCluster does
DoRecluster ==
    /\ pc = "adapter_input"
    /\ \E th \in ReclusterThresholds :
          LET valid == FilterValidLayers(FlattenLayers(rawLayers))
              first == ClusterByProximity(valid, th)
              subs == SubClusterLayers(valid)
          IN  reclustered' =
                  [threshold |-> th,
                   clusters |-> first,
                   again |-> [i \in 1..Len(first) |-> ClusterByProximity(first[i], th)],
                   subClusters |-> subs,
                   subAgain |-> [i \in 1..Len(subs) |-> SubClusterLayers(subs[i])]]
    /\ pc' = "recluster_done"
    /\ UNCHANGED <<rawLayers, canvasWidth, rawResult, rawLayersAfter, rawResultAgain,
                   rawResultIds, idsDrawn, clusterVars, inferVars, classifyVars, layoutVars, distanceVars,
                   imageBoxVars, rowVars, relativeVars, editorVars, appVars>>

NextAdapter == DoProcessLayers \/ DoProcessLayersAgain \/ DoRecluster

SpecAdapter == InitAdapter /\ [][NextAdapter]_vars

(***************************************************************************)
(* Specification of StructureInferenceEngine.inferWidgetType               *)
(***************************************************************************)
\* a text layer the parser found no style for: type text, no textInfo
BareTextLeaf(name, bounds) ==
    [id |-> 0, name |-> name, type |-> "text", visible |-> TRUE, bounds |-> bounds,
     hasTextInfo |-> FALSE, fontSize |-> 0, text |-> "", hasImage |-> FALSE,
     children |-> <<>>]

\* an empty group: a leaf that is neither text nor image
EmptyGroupLeaf(name, bounds) ==
    [id |-> 0, name |-> name, type |-> "group", visible |-> TRUE, bounds |-> bounds,
     hasTextInfo |-> FALSE, fontSize |-> 0, text |-> "", hasImage |-> FALSE,
     children |-> <<>>]

\* members of a cluster: a heading (28px) and a body text (14px), both one
\* line of text 200 wide; a text without style; a picture; a wide banner
\* (button profile); an icon; a small pill shape (button profile); a group
InferLeaves ==
    {TextLeaf("Layer 1", 28, "Welcome", Bounds(0, 0, 200, 30), TRUE),
     TextLeaf("Layer 2", 14, "Lorem ipsum", Bounds(40, 0, 200, 80), TRUE),
     BareTextLeaf("Layer 3", Bounds(90, 0, 200, 110)),
     ImageLeaf("Layer 4", "image", Bounds(0, 210, 410, 150), TRUE),
     ImageLeaf("Layer 5", "image", Bounds(120, 0, 120, 160), TRUE),
     ImageLeaf("Layer 6", "image", Bounds(0, 420, 460, 40), TRUE),
     ImageLeaf("Layer 7", "shape", Bounds(50, 420, 520, 90), TRUE),
     EmptyGroupLeaf("Layer 8", Bounds(0, 0, 300, 200))}

\* widths and heights on both sides of every limit of the button profile:
\* 300 wide, 80 high, and a ratio of 2 and of 6
ShapeSizes ==
    {<<300, 80>>, <<301, 80>>, <<243, 81>>, <<160, 80>>, <<159, 80>>,
     <<240, 40>>, <<241, 40>>, <<100, 100>>}

\* single layers: texts of the button profile with font sizes around 24 and
\* without one, and images, shapes and empty groups of every size above
SingleLeaves ==
    {TextLeaf("Layer 1", fontSize, "Welcome", Bounds(0, 0, 100, 40), TRUE) :
        fontSize \in {0, 16, 23, 24, 25}}
    \cup {BareTextLeaf("Layer 3", Bounds(0, 0, 100, 40))}
    \cup {ImageLeaf("Layer 4", type, Bounds(0, 0, size[1], size[2]), TRUE) :
             type \in {"image", "shape"}, size \in ShapeSizes}
    \cup {EmptyGroupLeaf("Layer 8", Bounds(0, 0, size[1], size[2])) : size \in ShapeSizes}

InferInputs ==
    {WithIds(ls) : ls \in SeqsUpTo(InferLeaves, MaxCluster)}
    \cup {WithIds(<<leaf>>) : leaf \in SingleLeaves}

InitInfer ==
    /\ pc = "infer_input"
    /\ inferCluster \in InferInputs
    /\ inferred = <<>>
    /\ IdleCluster /\ IdleAdapter /\ IdleClassify /\ IdleLayout /\ IdleDistance /\ IdleImageBox /\ IdleRows /\ IdleRelative /\ IdleEditor /\ IdleApp

DoInferWidgetType ==
    /\ pc = "infer_input"
    /\ inferred' = InferWidgetType(inferCluster)
    /\ pc' = "infer_done"
    /\ UNCHANGED <<inferCluster, clusterVars, adapterVars, classifyVars, layoutVars, distanceVars,
                   imageBoxVars, rowVars, relativeVars, editorVars, appVars>>

NextInfer == DoInferWidgetType

SpecInfer == InitInfer /\ [][NextInfer]_vars

(***************************************************************************)
(* Specification of classifyLayers followed by generateElementorJson, as   *)
(* handleFileSelected runs them                                            *)
(***************************************************************************)
\* layers named and typed the way designers do: named headings, texts and
\* pictures, unnamed texts told apart by font size, a named and an unnamed
\* button shape
ClassifyLeaves ==
    {TextLeaf("Header", 28, "Welcome", Bounds(0, 0, 100, 20), TRUE),
     TextLeaf("Description", 14, "Lorem ipsum", Bounds(30, 0, 100, 50), TRUE),
     ImageLeaf("Img", "image", Bounds(60, 0, 100, 160), TRUE),
     TextLeaf("Layer 1", 30, "Big", Bounds(0, 120, 220, 20), TRUE),
     ImageLeaf("btn", "shape", Bounds(170, 0, 100, 200), TRUE),
     ImageLeaf("Shape 1", "shape", Bounds(170, 120, 220, 200), TRUE)}

\* groups the designer made of them
ClassifyGroups ==
    {GroupLayer("Group 2",
        <<ImageLeaf("Img", "image", Bounds(60, 0, 100, 160), TRUE),
          TextLeaf("Header", 28, "Welcome", Bounds(0, 0, 100, 20), TRUE)>>,
        Bounds(0, 0, 0, 0), TRUE),
     GroupLayer("Group 3",
        <<TextLeaf("Header", 28, "Welcome", Bounds(0, 0, 100, 20), TRUE),
          TextLeaf("Description", 14, "Lorem ipsum", Bounds(30, 0, 100, 50), TRUE)>>,
        Bounds(0, 0, 0, 0), TRUE),
     GroupLayer("card",
        <<ImageLeaf("Img", "image", Bounds(60, 0, 100, 160), TRUE),
          TextLeaf("Header", 28, "Welcome", Bounds(0, 0, 100, 20), TRUE),
          TextLeaf("Description", 14, "Lorem ipsum", Bounds(30, 0, 100, 50), TRUE)>>,
        Bounds(0, 0, 0, 0), TRUE),
     GroupLayer("Group 4",
        <<ImageLeaf("btn", "shape", Bounds(170, 0, 100, 200), TRUE)>>,
        Bounds(0, 0, 0, 0), TRUE),
     GroupLayer("Group 5",
        <<ImageLeaf("Img", "image", Bounds(60, 0, 100, 160), TRUE),
          TextLeaf("Header", 28, "Welcome", Bounds(0, 0, 100, 20), TRUE),
          BareTextLeaf("Layer 3", Bounds(30, 0, 100, 50))>>,
        Bounds(0, 0, 0, 0), FALSE),
     GroupLayer("Group 7",
        <<ImageLeaf("Img", "image", Bounds(0, 0, 0, 0), TRUE),
          TextLeaf("Description", 14, "Lorem ipsum", Bounds(30, 0, 100, 50), TRUE)>>,
        Bounds(0, 0, 400, 300), TRUE),
     BoxedGroup("Group 6",
        <<TextLeaf("Header", 28, "Welcome", Bounds(0, 0, 100, 20), TRUE),
          TextLeaf("Description", 14, "Lorem ipsum", Bounds(30, 0, 100, 50), TRUE)>>,
        Bounds(0, 0, 400, 300), TRUE)}

GroupNames == {"Group 1", "Layer 5", "card"}

ClassifyInputs ==
    LET lists == SeqsUpTo(ClassifyLeaves \cup ClassifyGroups, MaxChildren)
    IN  lists \cup
        {<<GroupLayer(name, ls, Bounds(0, 0, 0, 0), TRUE)>> :
            name \in GroupNames, ls \in lists \ {<<>>}}

InitClassify ==
    /\ pc = "classify_input"
    /\ psdLayers \in ClassifyInputs
    /\ classifiedLayers = <<>>
    /\ elementorJson = <<>>
    /\ IdleCluster /\ IdleAdapter /\ IdleInfer /\ IdleLayout /\ IdleDistance /\ IdleImageBox /\ IdleRows /\ IdleRelative /\ IdleEditor /\ IdleApp

\* appState.classifiedLayers = classifyLayers(psdData.layers)
DoClassifyLayers ==
    /\ pc = "classify_input"
    /\ classifiedLayers' = ClassifyLayers(psdLayers)
    /\ pc' = "classify_done"
    /\ UNCHANGED <<psdLayers, elementorJson, clusterVars, adapterVars, inferVars,
                   layoutVars, distanceVars,
                   imageBoxVars, rowVars, relativeVars, editorVars, appVars>>

\* appState.elementorJson = generateElementorJson(appState.classifiedLayers, ...)
DoGenerateElementorJson ==
    /\ pc = "classify_done"
    /\ elementorJson' = GenerateElementorJson(classifiedLayers)
    /\ classifiedLayers' = LayersAfterGenerate(classifiedLayers)
    /\ pc' = "generate_done"
    /\ UNCHANGED <<psdLayers, clusterVars, adapterVars, inferVars,
                   layoutVars, distanceVars,
                   imageBoxVars, rowVars, relativeVars, editorVars, appVars>>

NextClassify == DoClassifyLayers \/ DoGenerateElementorJson

SpecClassify == InitClassify /\ [][NextClassify]_vars

(***************************************************************************)
(* Specification of ContainerLayoutHelper.calculateGap and calculateLayout *)
(***************************************************************************)
\* a child of the container whose layout is asked for
LayoutChild(bounds, visible) == [visible |-> visible, bounds |-> bounds]

\* 20px boxes laid out one after the other, gaps[i] apart (a negative gap is
\* an overlap), along the x axis or along the y axis
RECURSIVE ChainFrom(_, _, _)
ChainFrom(start, gaps, axis) ==
    <<LayoutChild(IF axis = "row" THEN Bounds(0, start, start + 20, 20)
                  ELSE Bounds(start, 0, 20, start + 20), TRUE)>>
    \o (IF gaps = <<>> THEN <<>>
        ELSE ChainFrom(start + 20 + Head(gaps), Tail(gaps), axis))

Reverse(s) == [i \in 1..Len(s) |-> s[Len(s) + 1 - i]]

GapChoices == {-5, 10, 11, 12, 90}

Chains ==
    {ChainFrom(0, gaps, axis) : gaps \in SeqsUpTo(GapChoices, MaxGaps),
                                axis \in {"row", "column"}}

\* boxes that share a line, start below the middle of one, or sit far below,
\* one that overlaps the first by exactly 30% of its height; one of them
\* hidden and one of zero width
WrapBoxes ==
    {LayoutChild(Bounds(0, 0, 50, 100), TRUE),
     LayoutChild(Bounds(0, 60, 110, 100), TRUE),
     LayoutChild(Bounds(60, 60, 110, 160), TRUE),
     LayoutChild(Bounds(40, 120, 170, 100), TRUE),
     LayoutChild(Bounds(120, 0, 50, 220), TRUE),
     LayoutChild(Bounds(70, 0, 50, 170), TRUE),
     LayoutChild(Bounds(60, 0, 50, 160), FALSE),
     LayoutChild(Bounds(0, 60, 60, 100), TRUE)}

LayoutInputs ==
    Chains \cup {Reverse(c) : c \in Chains} \cup SeqsUpTo(WrapBoxes, MaxLayers)

InitLayout ==
    /\ pc = "layout_input"
    /\ layoutChildren \in LayoutInputs
    /\ gapDirection = ""
    /\ gapResult = 0
    /\ directionResult = ""
    /\ layoutResult = <<>>
    /\ IdleCluster /\ IdleAdapter /\ IdleInfer /\ IdleClassify /\ IdleDistance /\ IdleImageBox /\ IdleRows /\ IdleRelative /\ IdleEditor /\ IdleApp

DoCalculateGap ==
    /\ pc = "layout_input"
    /\ \E direction \in {"row", "column"} :
          /\ gapDirection' = direction
          /\ gapResult' = CalculateGap(layoutChildren, direction)
    /\ pc' = "gap_done"
    /\ UNCHANGED <<layoutChildren, directionResult, layoutResult, clusterVars,
                   adapterVars, inferVars, classifyVars, distanceVars,
                   imageBoxVars, rowVars, relativeVars, editorVars, appVars>>

DoDetectFlexDirection ==
    /\ pc = "layout_input"
    /\ directionResult' = DetectFlexDirection(layoutChildren)
    /\ pc' = "direction_done"
    /\ UNCHANGED <<layoutChildren, gapDirection, gapResult, layoutResult, clusterVars,
                   adapterVars, inferVars, classifyVars, distanceVars,
                   imageBoxVars, rowVars, relativeVars, editorVars, appVars>>

DoCalculateLayout ==
    /\ pc = "layout_input"
    /\ layoutResult' = CalculateLayout(layoutChildren)
    /\ pc' = "layout_done"
    /\ UNCHANGED <<layoutChildren, gapDirection, gapResult, directionResult,
                   clusterVars, adapterVars, inferVars, classifyVars, distanceVars,
                   imageBoxVars, rowVars, relativeVars, editorVars, appVars>>

NextLayout == DoCalculateGap \/ DoDetectFlexDirection \/ DoCalculateLayout

SpecLayout == InitLayout /\ [][NextLayout]_vars

(***************************************************************************)
(* Specification of LayoutDistanceHelper.smartDistance                     *)
(***************************************************************************)
\* 20px boxes whose corners lie on a grid with steps of 30 and 40
DistanceBoxes ==
    {Bounds(t, l, l + 20, t + 20) : t \in {0, 30, 70, 120}, l \in {0, 30, 70}}

InitDistance ==
    /\ pc = "distance_input"
    /\ boxA \in DistanceBoxes
    /\ boxB \in DistanceBoxes
    /\ distance = 0
    /\ IdleCluster /\ IdleAdapter /\ IdleInfer /\ IdleClassify /\ IdleLayout
    /\ IdleImageBox /\ IdleRows /\ IdleRelative /\ IdleEditor /\ IdleApp

DoSmartDistance ==
    /\ pc = "distance_input"
    /\ distance' = SmartDistance(boxA, boxB)
    /\ pc' = "distance_done"
    /\ UNCHANGED <<boxA, boxB, clusterVars, adapterVars, inferVars, classifyVars,
                   layoutVars,
                   imageBoxVars, rowVars, relativeVars, editorVars, appVars>>

NextDistance == DoSmartDistance

SpecDistance == InitDistance /\ [][NextDistance]_vars

(***************************************************************************)
(* Specification of ImageBoxContentClassifier.classify                     *)
(***************************************************************************)
BoxText(id, name, top, textInfo) ==
    [id |-> id, name |-> name, type |-> "text", hasImage |-> FALSE,
     bounds |-> Bounds(top, 0, 200, top + 30), textInfo |-> textInfo]

\* a text layer the parser left without textInfo and without textData
BoxBareText(id, name, top) ==
    [id |-> id, name |-> name, type |-> "text", hasImage |-> FALSE,
     bounds |-> Bounds(top, 0, 200, top + 30)]

BoxImage(id, name, top) ==
    [id |-> id, name |-> name, type |-> "image", hasImage |-> TRUE,
     bounds |-> Bounds(top, 0, 200, top + 100)]

ShortText == <<"H", "i">>

\* 101 characters on three lines
LongText == [i \in 1..101 |-> IF i \in {10, 20} THEN "\n" ELSE "x"]

\* two titles that score alike, a body text above them, a bold caption, a
\* text without textInfo, a long paragraph, a named and an unnamed picture
BoxLeaves ==
    {BoxText(1, "title_x", 40,
             [text |-> ShortText, fontSize |-> 30, fontWeight |-> "normal"]),
     BoxText(2, "Title", 80,
             [text |-> ShortText, fontSize |-> 30, fontWeight |-> "normal"]),
     BoxText(3, "desc_y", 0,
             [text |-> ShortText, fontSize |-> 14, fontWeight |-> "normal"]),
     BoxText(4, "Layer 1", 120,
             [text |-> ShortText, fontSize |-> 20, fontWeight |-> "bold"]),
     BoxBareText(5, "Layer 2", 160),
     BoxText(6, "Layer 3", 200,
             [text |-> LongText, fontSize |-> 18, fontWeight |-> "normal"]),
     BoxImage(7, "Layer 4", 0),
     BoxImage(8, "Img", 120)}

\* lists of distinct children
BoxInputs ==
    {ls \in SeqsUpTo(BoxLeaves, MaxBoxChildren) :
        \A i, k \in 1..Len(ls) : i # k => ls[i].id # ls[k].id}

InitImageBox ==
    /\ pc = "box_input"
    /\ boxChildren \in BoxInputs
    /\ boxResult = <<>>
    /\ boxChildrenAfter = boxChildren
    /\ IdleCluster /\ IdleAdapter /\ IdleInfer /\ IdleClassify /\ IdleLayout
    /\ IdleDistance /\ IdleRows /\ IdleRelative /\ IdleEditor /\ IdleApp

\* classify(children): the result, and the children objects it wrote into
DoClassifyImageBox ==
    /\ pc = "box_input"
    /\ boxResult' = ClassifyImageBox(boxChildren)
    /\ boxChildrenAfter' = ChildrenAfterClassify(boxChildren)
    /\ pc' = "box_done"
    /\ UNCHANGED <<boxChildren, clusterVars, adapterVars, inferVars, classifyVars,
                   layoutVars, distanceVars, rowVars, relativeVars, editorVars,
                   appVars>>

NextImageBox == DoClassifyImageBox

SpecImageBox == InitImageBox /\ [][NextImageBox]_vars

(***************************************************************************)
(* Specification of groupIntoRows and detectContainerBoundaries            *)
(***************************************************************************)
\* vertical spans of clusters: a tall one, one overlapping it by exactly 30%,
\* one overlapping it by 40%, a short one inside it, one that overlaps the
\* tall one but not the short one, and one far below
RowSpans == {<<0, 100>>, <<70, 170>>, <<60, 160>>, <<10, 30>>, <<60, 120>>, <<200, 250>>}

\* cluster i of the list holds one layer with id i, 50 wide, at column i
MkClusters(spans) ==
    [i \in 1..Len(spans) |->
        <<[id |-> i,
           bounds |-> Bounds(spans[i][1], 60 * (Len(spans) - i),
                             60 * (Len(spans) - i) + 50, spans[i][2])]>>]

RowInputs == {MkClusters(sp) : sp \in SeqsUpTo(RowSpans, MaxRowClusters)}

InitRows ==
    /\ pc = "rows_input"
    /\ rowClusters \in RowInputs
    /\ rowsResult = <<>>
    /\ boundaries = <<>>
    /\ IdleCluster /\ IdleAdapter /\ IdleInfer /\ IdleClassify /\ IdleLayout
    /\ IdleDistance /\ IdleImageBox /\ IdleRelative /\ IdleEditor /\ IdleApp

DoGroupIntoRows ==
    /\ pc = "rows_input"
    /\ rowsResult' = GroupIntoRows(rowClusters)
    /\ pc' = "rows_done"
    /\ UNCHANGED <<rowClusters, boundaries, clusterVars, adapterVars, inferVars,
                   classifyVars, layoutVars, distanceVars, imageBoxVars,
                   relativeVars, editorVars, appVars>>

DoDetectContainerBoundaries ==
    /\ pc = "rows_input"
    /\ \E width \in CanvasWidths :
          boundaries' = DetectContainerBoundaries(rowClusters, width)
    /\ pc' = "boundaries_done"
    /\ UNCHANGED <<rowClusters, rowsResult, clusterVars, adapterVars, inferVars,
                   classifyVars, layoutVars, distanceVars, imageBoxVars,
                   relativeVars, editorVars, appVars>>

NextRows == DoGroupIntoRows \/ DoDetectContainerBoundaries

SpecRows == InitRows /\ [][NextRows]_vars

(***************************************************************************)
(* Specification of getRelativePosition and inferFlexDirection             *)
(***************************************************************************)
\* images 20 or 21 wide and high around a text block that spans 100..200 on
\* both axes: centers before, on and after each edge of the text
ImageOffsets == {60, 89, 90, 150, 190, 191, 230}

RelativeImages ==
    {Bounds(t, l, l + size, t + size) :
        t \in ImageOffsets, l \in ImageOffsets, size \in {20, 21}}

RelativeTexts == {Bounds(100, 100, 200, 200)}

InitRelative ==
    /\ pc = "relative_input"
    /\ relImage \in RelativeImages
    /\ relText \in RelativeTexts
    /\ positionResult = ""
    /\ flexResult = ""
    /\ IdleCluster /\ IdleAdapter /\ IdleInfer /\ IdleClassify /\ IdleLayout
    /\ IdleDistance /\ IdleImageBox /\ IdleRows /\ IdleEditor /\ IdleApp

DoGetRelativePosition ==
    /\ pc = "relative_input"
    /\ positionResult' = GetRelativePosition(relImage, relText)
    /\ pc' = "position_done"
    /\ UNCHANGED <<relImage, relText, flexResult, clusterVars, adapterVars, inferVars,
                   classifyVars, layoutVars, distanceVars, imageBoxVars, rowVars,
                   editorVars, appVars>>

DoInferFlexDirection ==
    /\ pc = "relative_input"
    /\ flexResult' = InferFlexDirection(relImage, relText)
    /\ pc' = "flex_done"
    /\ UNCHANGED <<relImage, relText, positionResult, clusterVars, adapterVars, inferVars,
                   classifyVars, layoutVars, distanceVars, imageBoxVars, rowVars,
                   editorVars, appVars>>

NextRelative == DoGetRelativePosition \/ DoInferFlexDirection

SpecRelative == InitRelative /\ [][NextRelative]_vars

(***************************************************************************)
(* LayerPreview: the layer tree editor                                     *)
(* A layer is a record with an id and, once it is or has been a container, *)
(* a children array.                                                       *)
(***************************************************************************)
MaxTreeLayers == 3

\* an id no layer of the tree has
MissingId == MaxTreeLayers + 1

Leaf(id) == [id |-> id]

Container(id, children) == [id |-> id, children |-> children]

\* layer.children is truthy: an array, even an empty one
HasLayerChildren(layer) == "children" \in DOMAIN layer

\* findLayerById: <<layer>> for the first layer of that id, depth first, <<>> for null
RECURSIVE FindLayerById(_, _)
FindLayerById(id, searchLayers) ==
    IF searchLayers = <<>> THEN <<>>
    ELSE IF Head(searchLayers).id = id THEN <<Head(searchLayers)>>
    ELSE LET found == IF HasLayerChildren(Head(searchLayers))
                      THEN FindLayerById(id, Head(searchLayers).children)
                      ELSE <<>>
         IN  IF found # <<>> THEN found ELSE FindLayerById(id, Tail(searchLayers))

\* a variant of isDescendantOf that looks at the direct children only
IsDescendantOfChildOnly(id, layer) ==
    /\ HasLayerChildren(layer)
    /\ \E i \in 1..Len(layer.children) : layer.children[i].id = id

\* isDescendantOf: the id is the id of a layer below this one
RECURSIVE IsDescendantOf(_, _)
IsDescendantOf(id, layer) ==
    /\ HasLayerChildren(layer)
    /\ \E i \in 1..Len(layer.children) :
          \/ layer.children[i].id = id
          \/ IsDescendantOf(id, layer.children[i])

NotRemoved == [removed |-> <<>>, layers |-> <<>>]

\* removeLayer: findParentOf finds the siblings of the first layer of that id,
\* splice takes it out; the result is the removed layer and the tree without it
RECURSIVE RemoveLayer(_, _)
RemoveLayerBelow(id, searchLayers, inside) ==
    IF inside.removed # <<>>
    THEN [removed |-> inside.removed,
          layers |-> <<[Head(searchLayers) EXCEPT !.children = inside.layers]>>
                     \o Tail(searchLayers)]
    ELSE [removed |-> RemoveLayer(id, Tail(searchLayers)).removed,
          layers |-> <<Head(searchLayers)>> \o RemoveLayer(id, Tail(searchLayers)).layers]

RemoveLayer(id, searchLayers) ==
    IF searchLayers = <<>> THEN NotRemoved
    ELSE IF Head(searchLayers).id = id
    THEN [removed |-> <<Head(searchLayers)>>, layers |-> Tail(searchLayers)]
    ELSE RemoveLayerBelow(id, searchLayers,
            IF HasLayerChildren(Head(searchLayers))
            THEN RemoveLayer(id, Head(searchLayers).children)
            ELSE NotRemoved)

\* moveLayer after the removal: findParentOf(targetId) and the splice of the
\* removed layer before or after the target among its siblings
RECURSIVE InsertBeside(_, _, _, _)
InsertBesideBelow(removed, targetId, before, searchLayers, inside) ==
    IF inside.found
    THEN [found |-> TRUE,
          layers |-> <<[Head(searchLayers) EXCEPT !.children = inside.layers]>>
                     \o Tail(searchLayers)]
    ELSE [found |-> InsertBeside(removed, targetId, before, Tail(searchLayers)).found,
          layers |-> <<Head(searchLayers)>>
                     \o InsertBeside(removed, targetId, before, Tail(searchLayers)).layers]

InsertBeside(removed, targetId, before, searchLayers) ==
    IF searchLayers = <<>> THEN [found |-> FALSE, layers |-> <<>>]
    ELSE IF Head(searchLayers).id = targetId
    THEN [found |-> TRUE,
          layers |-> IF before THEN <<removed>> \o searchLayers
                     ELSE <<Head(searchLayers), removed>> \o Tail(searchLayers)]
    ELSE InsertBesideBelow(removed, targetId, before, searchLayers,
            IF HasLayerChildren(Head(searchLayers))
            THEN InsertBeside(removed, targetId, before, Head(searchLayers).children)
            ELSE [found |-> FALSE, layers |-> <<>>])

\* the steps of moveLayer once the dragged layer is out of the tree
MoveRemoved(r, targetId, before) ==
    IF r.removed = <<>> THEN Returned(r.layers)
    ELSE IF ~InsertBeside(r.removed[1], targetId, before, r.layers).found
    THEN Returned(Append(r.layers, r.removed[1]))
    ELSE Returned(InsertBeside(r.removed[1], targetId, before, r.layers).layers)

\* moveLayer: the layers array after the call, or the TypeError of
\* isDescendantOf(targetId, null) when no layer has the dragged id
MoveLayer(ls, draggedId, targetId, before) ==
    IF draggedId = targetId THEN Returned(ls)
    ELSE IF FindLayerById(draggedId, ls) = <<>> THEN Threw
    ELSE IF IsDescendantOf(targetId, FindLayerById(draggedId, ls)[1]) THEN Returned(ls)
    ELSE MoveRemoved(RemoveLayer(draggedId, ls), targetId, before)

\* nestLayer after the removal: containerLayer.children.push(removed), on the
\* container found before the removal
RECURSIVE PushInto(_, _, _)
PushInto(removed, containerId, searchLayers) ==
    IF searchLayers = <<>> THEN <<>>
    ELSE IF Head(searchLayers).id = containerId
    THEN <<IF HasLayerChildren(Head(searchLayers))
           THEN [Head(searchLayers) EXCEPT !.children = Append(@, removed)]
           ELSE [children |-> <<removed>>] @@ Head(searchLayers)>>
         \o Tail(searchLayers)
    ELSE IF /\ HasLayerChildren(Head(searchLayers))
            /\ FindLayerById(containerId, Head(searchLayers).children) # <<>>
    THEN <<[Head(searchLayers) EXCEPT
              !.children = PushInto(removed, containerId, Head(searchLayers).children)]>>
         \o Tail(searchLayers)
    ELSE <<Head(searchLayers)>> \o PushInto(removed, containerId, Tail(searchLayers))

\* the steps of nestLayer once the dragged layer is out of the tree
NestRemoved(r, containerId) ==
    IF r.removed = <<>> THEN r.layers
    ELSE PushInto(r.removed[1], containerId, r.layers)

\* nestLayer: the layers array after the call
NestLayer(ls, draggedId, containerId) ==
    IF draggedId = containerId THEN ls
    ELSE IF FindLayerById(draggedId, ls) = <<>> \/ FindLayerById(containerId, ls) = <<>>
    THEN ls
    ELSE IF IsDescendantOf(containerId, FindLayerById(draggedId, ls)[1]) THEN ls
    ELSE NestRemoved(RemoveLayer(draggedId, ls), containerId)

(***************************************************************************)
(* Specification of the layer tree editor                                  *)
(***************************************************************************)
\* the trees initLayerPreview is given: flat lists of one to MaxTreeLayers
\* layers, and the same with the first layer an empty or a filled container
StartTrees ==
    {[i \in 1..n |-> Leaf(i)] : n \in 1..MaxTreeLayers}
    \cup {<<Container(1, <<>>)>> \o [i \in 1..(n - 1) |-> Leaf(i + 1)] :
             n \in 2..MaxTreeLayers}
    \cup {<<Container(1, [i \in 1..(n - 1) |-> Leaf(i + 1)])>> : n \in 2..MaxTreeLayers}

\* the ids a drag and drop can carry
CallIds == (1..MaxTreeLayers) \cup {MissingId}

InitEditor ==
    /\ pc = "editor"
    /\ treeStart \in StartTrees
    /\ treeLayers = treeStart
    /\ lastCall = <<>>
    /\ IdleCluster /\ IdleAdapter /\ IdleInfer /\ IdleClassify /\ IdleLayout
    /\ IdleDistance /\ IdleImageBox /\ IdleRows /\ IdleRelative /\ IdleApp

DoMoveLayer ==
    /\ pc = "editor"
    /\ \E draggedId \in CallIds, targetId \in CallIds, before \in BOOLEAN :
          /\ lastCall' = [op |-> "moveLayer", draggedId |-> draggedId,
                          targetId |-> targetId, before |-> before,
                          layersBefore |-> treeLayers,
                          threw |-> MoveLayer(treeLayers, draggedId, targetId, before).threw]
          /\ treeLayers' =
                IF MoveLayer(treeLayers, draggedId, targetId, before).threw
                THEN treeLayers
                ELSE MoveLayer(treeLayers, draggedId, targetId, before).value
    /\ UNCHANGED <<pc, treeStart, clusterVars, adapterVars, inferVars, classifyVars,
                   layoutVars, distanceVars, imageBoxVars, rowVars, relativeVars,
                   appVars>>

DoNestLayer ==
    /\ pc = "editor"
    /\ \E draggedId \in CallIds, containerId \in CallIds :
          /\ lastCall' = [op |-> "nestLayer", draggedId |-> draggedId,
                          targetId |-> containerId, layersBefore |-> treeLayers,
                          threw |-> FALSE]
          /\ treeLayers' = NestLayer(treeLayers, draggedId, containerId)
    /\ UNCHANGED <<pc, treeStart, clusterVars, adapterVars, inferVars, classifyVars,
                   layoutVars, distanceVars, imageBoxVars, rowVars, relativeVars,
                   appVars>>

NextEditor == DoMoveLayer \/ DoNestLayer

SpecEditor == InitEditor /\ [][NextEditor]_vars

(***************************************************************************)
(* main: handleFileSelected                                                *)
(* A file name is the sequence of its characters. A nullable field of     *)
(* appState is <<>> for null and <<value>> otherwise.                      *)
(***************************************************************************)
MaxCalls == 3

\* file.name.replace('.psd', ''): the first '.psd' is taken out, in that case only
RECURSIVE ReplacePsd(_)
ReplacePsd(name) ==
    IF Len(name) < 4 THEN name
    ELSE IF SubSeq(name, 1, 4) = <<".", "p", "s", "d">> THEN SubSeq(name, 5, Len(name))
    ELSE <<Head(name)>> \o ReplacePsd(Tail(name))

\* String.prototype.endsWith
EndsWith(chars, word) ==
    Len(word) <= Len(chars) /\ SubSeq(chars, Len(chars) - Len(word) + 1, Len(chars)) = word

\* validateFile: file.name.toLowerCase().endsWith('.psd')
ValidateFile(file) == EndsWith(ToLowerCase(file.name), <<".", "p", "s", "d">>)

\* parsePsdFile: the promise resolves with the document's size, its extracted
\* layers and the stripped name, or rejects when readPsd throws on the bytes
ParsePsdFile(file) ==
    IF file.isPsd
    THEN Returned([width |-> file.width, height |-> file.height,
                   layers |-> file.layers, fileName |-> ReplacePsd(file.name)])
    ELSE Threw

\* generateElementorJson: title: metadata.fileName || "PSD Template"
TitleOf(metadata) ==
    IF metadata.fileName = <<>>
    THEN <<"P", "S", "D", " ", "T", "e", "m", "p", "l", "a", "t", "e">>
    ELSE metadata.fileName

\* generateElementorJson(layers, metadata): the template with its title
GenerateElementorJsonTitled(generated, metadata) ==
    IF generated.threw THEN Threw
    ELSE Returned([title |-> TitleOf(metadata)] @@ generated.value)

\* handleFileSelected after the await: psdData and classifiedLayers are
\* assigned, then updateElementorJson assigns elementorJson unless
\* generateElementorJson throws; the layers have been through the generator
AfterParse(state, psdData, generated) ==
    [state EXCEPT
        !.psdData = <<psdData>>,
        !.classifiedLayers = <<LayersAfterGenerate(ClassifyLayers(psdData.layers))>>,
        !.elementorJson = IF generated.threw THEN state.elementorJson
                          ELSE <<generated.value>>]

(***************************************************************************)
(* Specification of handleFileSelected                                     *)
(***************************************************************************)
HeroFile ==
    [name |-> <<"h", "e", "r", "o", ".", "p", "s", "d">>, isPsd |-> TRUE, width |-> 1200, height |-> 800,
     layers |-> WithIds(<<TextLeaf("Header", 28, "Welcome", Bounds(0, 0, 100, 20), TRUE)>>)]

CardFile ==
    [name |-> <<"c", "a", "r", "d", ".", "p", "s", "d">>, isPsd |-> TRUE, width |-> 800, height |-> 600,
     layers |-> WithIds(
                  <<ImageLeaf("Img", "image", Bounds(60, 0, 100, 160), TRUE),
                    TextLeaf("Description", 14, "Lorem ipsum", Bounds(30, 0, 100, 50), TRUE)>>)]

\* a document whose only group becomes an image-box that createImageBoxWidget
\* throws on, under an upper-case extension
LogoFile ==
    [name |-> <<"l", "o", "g", "o", ".", "P", "S", "D">>, isPsd |-> TRUE, width |-> 400, height |-> 400,
     layers |-> <<[GroupLayer("Group 2",
                     WithIds(<<ImageLeaf("Img", "image", Bounds(60, 0, 100, 160), TRUE),
                               TextLeaf("Header", 28, "Welcome", Bounds(0, 0, 100, 20), TRUE)>>),
                     Bounds(0, 0, 0, 0), TRUE)
                     EXCEPT !.id = 3]>>]

\* a file named .psd that is not a PSD document
NotesFile ==
    [name |-> <<"n", "o", "t", "e", "s", ".", "p", "s", "d">>, isPsd |-> FALSE, width |-> 0, height |-> 0,
     layers |-> <<>>]

TextFile ==
    [name |-> <<"n", "o", "t", "e", "s", ".", "t", "x", "t">>, isPsd |-> FALSE, width |-> 0, height |-> 0,
     layers |-> <<>>]

\* a document under a mixed-case extension, which replace('.psd', '') leaves
\* in the name
PosterFile ==
    [name |-> <<"P", "o", "s", "t", "e", "r", ".", "P", "s", "D">>, isPsd |-> TRUE, width |-> 600, height |-> 900,
     layers |-> <<[TextLeaf("Description", 14, "Lorem ipsum", Bounds(30, 0, 100, 50), TRUE)
                      EXCEPT !.id = 4],
                  [GroupLayer("Group 5",
                      WithIds(<<ImageLeaf("Img", "image", Bounds(60, 0, 100, 160), TRUE),
                                TextLeaf("Header", 28, "Welcome", Bounds(0, 0, 100, 20), TRUE),
                                BareTextLeaf("Layer 3", Bounds(30, 0, 100, 50))>>),
                      Bounds(0, 0, 0, 0), FALSE)
                      EXCEPT !.id = 5]>>]

Files == {HeroFile, CardFile, LogoFile, NotesFile, TextFile, PosterFile}

\* a call of handleReset or handleLayersChange in the list of calls
NoFile == [name |-> <<>>, isPsd |-> FALSE, width |-> 0, height |-> 0, layers |-> <<>>]
OtherCall(handler) == [file |-> NoFile, at |-> handler, overlaps |-> FALSE]

\* let appState = {psdData: null, classifiedLayers: null, elementorJson: null,
\* fileName: ''}
StartState ==
    [psdData |-> <<>>, classifiedLayers |-> <<>>, elementorJson |-> <<>>, fileName |-> <<>>]

\* JSON.parse(JSON.stringify(initialLayers)): every layer is rebuilt with its
\* fields and its children; a field that is absent stays absent
RECURSIVE JsonClone(_)
JsonClone(ls) ==
    [i \in 1..Len(ls) |->
        IF "children" \in DOMAIN ls[i]
        THEN [ls[i] EXCEPT !.children = JsonClone(ls[i].children)]
        ELSE ls[i]]

\* the ids of the rows render draws, one for every layer of the tree
RECURSIVE RowIds(_)
RowIds(ls) ==
    UNION {{ls[i].id} \cup (IF "children" \in DOMAIN ls[i] THEN RowIds(ls[i].children)
                            ELSE {})
           : i \in 1..Len(ls)}

InitApp ==
    /\ pc = "app"
    /\ appState = StartState
    /\ handlers = <<>>
    /\ previewLayers = <<>>
    /\ IdleCluster /\ IdleAdapter /\ IdleInfer /\ IdleClassify /\ IdleLayout
    /\ IdleDistance /\ IdleImageBox /\ IdleRows /\ IdleRelative /\ IdleEditor

\* a change or drop event: validateFile, then handleFileSelected up to the
\* await of parsePsdFile. overlaps records that an earlier call was still
\* awaiting its parse.
DoFileSelected ==
    /\ pc = "app"
    /\ Len(handlers) < MaxCalls
    /\ \E file \in Files :
          /\ ValidateFile(file)
          /\ appState' = [appState EXCEPT !.fileName = ReplacePsd(file.name)]
          /\ handlers' = Append(handlers,
                [file |-> file, at |-> "parsing",
                 overlaps |-> \E j \in 1..Len(handlers) : handlers[j].at = "parsing"])
    /\ UNCHANGED <<pc, previewLayers, clusterVars, adapterVars, inferVars, classifyVars,
                   layoutVars, distanceVars, imageBoxVars, rowVars, relativeVars,
                   editorVars>>

\* the parse of one awaiting call resolves and the rest of its try block runs
DoParseResolved ==
    /\ pc = "app"
    /\ \E i \in 1..Len(handlers) :
          /\ handlers[i].at = "parsing"
          /\ ~ParsePsdFile(handlers[i].file).threw
          /\ LET psdData == ParsePsdFile(handlers[i].file).value
                 generated ==
                     GenerateElementorJsonTitled(
                         GenerateElementorJson(ClassifyLayers(psdData.layers)),
                         [fileName |-> appState.fileName])
             IN  /\ appState' = AfterParse(appState, psdData, generated)
                 /\ handlers' = [handlers EXCEPT ![i].at =
                                    IF generated.threw THEN "failed" ELSE "done"]
    /\ UNCHANGED <<pc, previewLayers, clusterVars, adapterVars, inferVars, classifyVars,
                   layoutVars, distanceVars, imageBoxVars, rowVars, relativeVars,
                   editorVars>>

\* the parse of one awaiting call rejects and its catch block runs
DoParseRejected ==
    /\ pc = "app"
    /\ \E i \in 1..Len(handlers) :
          /\ handlers[i].at = "parsing"
          /\ ParsePsdFile(handlers[i].file).threw
          /\ handlers' = [handlers EXCEPT ![i].at = "failed"]
    /\ UNCHANGED <<pc, appState, previewLayers, clusterVars, adapterVars, inferVars,
                   classifyVars, layoutVars, distanceVars, imageBoxVars, rowVars,
                   relativeVars, editorVars>>

\* the timer of a completed call fires: showPreview hands
\* appState.classifiedLayers, as it is by then, to initLayerPreview, which
\* keeps a deep clone of it; a clone of null is null and draws no row
DoShowPreview ==
    /\ pc = "app"
    /\ \E i \in 1..Len(handlers) :
          /\ handlers[i].at = "done"
          /\ handlers' = [handlers EXCEPT ![i].at = "shown"]
    /\ previewLayers' = IF appState.classifiedLayers = <<>> THEN <<>>
                        ELSE <<JsonClone(appState.classifiedLayers[1])>>
    /\ UNCHANGED <<pc, appState, clusterVars, adapterVars, inferVars, classifyVars,
                   layoutVars, distanceVars, imageBoxVars, rowVars, relativeVars,
                   editorVars>>

\* handleLayersChange(newLayers) on the array the preview holds: it becomes
\* appState.classifiedLayers and updateElementorJson runs the generator over
\* it, under the file name of the moment
LayersChanged(newLayers, generated) ==
    /\ appState' = [appState EXCEPT
                       !.classifiedLayers = <<LayersAfterGenerate(newLayers)>>,
                       !.elementorJson = IF generated.threw THEN appState.elementorJson
                                         ELSE <<generated.value>>]
    /\ previewLayers' = <<LayersAfterGenerate(newLayers)>>
    /\ handlers' = Append(handlers, OtherCall("changed"))

\* a row of the preview is dropped on another row: handleDrop calls
\* moveLayer by the half of the row the pointer is in (dropBefore), draws the
\* tree again and notifies main. On a container row handleContainerDrop runs
\* after it, on the row that render has taken out of the document: its
\* rectangle is empty, no pointer is in its centre zone, and nestLayer is not
\* called.
DoLayersChange ==
    /\ pc = "app"
    /\ Len(handlers) < MaxCalls
    /\ previewLayers # <<>>
    /\ \E draggedId \in RowIds(previewLayers[1]), targetId \in RowIds(previewLayers[1]),
          dropBefore \in BOOLEAN :
          /\ draggedId # targetId
          /\ LET newLayers ==
                     MoveLayer(previewLayers[1], draggedId, targetId, dropBefore).value
             IN  LayersChanged(newLayers,
                     GenerateElementorJsonTitled(GenerateElementorJson(newLayers),
                                                 [fileName |-> appState.fileName]))
    /\ UNCHANGED <<pc, clusterVars, adapterVars, inferVars, classifyVars,
                   layoutVars, distanceVars, imageBoxVars, rowVars, relativeVars,
                   editorVars>>

\* handleReset: appState is a new object with the initial fields; the calls
\* that await their parse go on and will write to it
DoReset ==
    /\ pc = "app"
    /\ Len(handlers) < MaxCalls
    /\ appState' = StartState
    /\ handlers' = Append(handlers, OtherCall("reset"))
    /\ UNCHANGED <<pc, previewLayers, clusterVars, adapterVars, inferVars, classifyVars,
                   layoutVars, distanceVars, imageBoxVars, rowVars, relativeVars,
                   editorVars>>

NextApp ==
    \/ DoFileSelected \/ DoParseResolved \/ DoParseRejected
    \/ DoShowPreview \/ DoLayersChange \/ DoReset

SpecApp == InitApp /\ [][NextApp]_vars

(***************************************************************************)
(* Properties of clusterByProximity                                        *)
(***************************************************************************)
ClusterDone == pc = "cluster_done"

\* the positions (cluster, index) at which the layer with this id occurs
Occurrences(cs, id) ==
    UNION {{<<k, p>> : p \in {q \in 1..Len(cs[k]) : cs[k][q].id = id}} : k \in 1..Len(cs)}

InSameCluster(cs, idA, idB) ==
    \E k \in 1..Len(cs) :
        /\ \E p \in 1..Len(cs[k]) : cs[k][p].id = idA
        /\ \E q \in 1..Len(cs[k]) : cs[k][q].id = idB

\* the gap the claim speaks of: 0 on an overlapping axis, Euclidean otherwise
GapWithin(a, b, th) ==
    LET hGap == IF a.right < b.left THEN b.left - a.right
                ELSE IF b.right < a.left THEN a.left - b.right ELSE 0
        vGap == IF a.bottom < b.top THEN b.top - a.bottom
                ELSE IF b.bottom < a.top THEN a.top - b.bottom ELSE 0
    IN  th >= 0 /\ hGap * hGap + vGap * vGap <= th * th

\* the layers reachable from a set of layers by hops of gap <= th
RECURSIVE ChainClosure(_, _, _)
ChainClosure(S, ls, th) ==
    LET more == {j \in 1..Len(ls) :
                    \E i \in S : GapWithin(ls[i].bounds, ls[j].bounds, th)}
    IN  IF more \subseteq S THEN S ELSE ChainClosure(S \cup more, ls, th)

Chained(ls, i, j, th) == j \in ChainClosure({i}, ls, th)

\* C2: the clusters returned by clusterByProximity partition the input list:
\* no cluster is empty, every member of a cluster is an input layer, and every
\* input layer occurs exactly once in exactly one cluster.
C2_Partition ==
    ClusterDone =>
        /\ \A k \in 1..Len(clusters) : Len(clusters[k]) > 0
        /\ \A k \in 1..Len(clusters) : \A p \in 1..Len(clusters[k]) :
               \E i \in 1..Len(layers) : clusters[k][p] = layers[i]
        /\ \A i \in 1..Len(layers) : Cardinality(Occurrences(clusters, layers[i].id)) = 1

\* a run that split three layers into a cluster of two and a cluster of one
C2_Witness ==
    /\ ClusterDone
    /\ Len(layers) = 3
    /\ Len(clusters) = 2
    /\ \E k \in 1..Len(clusters) : Len(clusters[k]) = 2

\* C3: two layers are in the same cluster if and only if a chain of layers
\* links them in which every consecutive pair has a bounding-box gap
\* (Euclidean combination of the axis gaps) of at most the threshold.
C3_Connectivity ==
    ClusterDone =>
        \A i, j \in 1..Len(layers) :
            InSameCluster(clusters, layers[i].id, layers[j].id)
                <=> Chained(layers, i, j, threshold)

\* two layers further apart than the threshold share a cluster through a
\* chain over a third one
C3_Witness ==
    /\ ClusterDone
    /\ \E i, j \in 1..Len(layers) :
          /\ InSameCluster(clusters, layers[i].id, layers[j].id)
          /\ ~GapWithin(layers[i].bounds, layers[j].bounds, threshold)

(***************************************************************************)
(* Properties of RawPSDAdapter.processLayers                               *)
(***************************************************************************)
AdapterDone == pc = "adapter_done"

ValidLeaves(ls) == FilterValidLayers(FlattenLayers(ls))

\* C1: for an input with at least one visible, positive-area leaf,
\* processLayers does not throw and returns exactly one root node: the single
\* top-level result as it is, or a column container holding the top-level
\* results and spanning the union of their bounds.
C1_SingleRoot ==
    (AdapterDone /\ Len(ValidLeaves(rawLayers)) > 0) =>
        /\ ~rawResult.threw
        /\ Len(rawResult.value) = 1
        /\ LET top == BuildRows(DetectContainerBoundaries(
                          ClusterByProximity(ValidLeaves(rawLayers), PROXIMITY_THRESHOLD),
                          canvasWidth),
                          <<>>).value
               root == rawResult.value[1]
           IN  IF Len(top) = 1 THEN root = top[1]
               ELSE /\ root.widgetType = "container"
                    /\ root.layout.direction = "column"
                    /\ root.children = top
                    /\ \A i \in 1..Len(top) :
                          /\ root.bounds.top <= top[i].bounds.top
                          /\ root.bounds.left <= top[i].bounds.left
                          /\ root.bounds.right >= top[i].bounds.right
                          /\ root.bounds.bottom >= top[i].bounds.bottom

(***************************************************************************)
(* Properties of inferWidgetType                                           *)
(***************************************************************************)
InferDone == pc = "infer_done"

\* the members of a cluster as the claims name them
TextMembers(c) == {i \in 1..Len(c) : c[i].type = "text" \/ c[i].hasTextInfo}
ImageMembers(c) ==
    {i \in 1..Len(c) : i \notin TextMembers(c)
                       /\ (c[i].type \in {"image", "shape"} \/ c[i].hasImage)}
MemberFontSize(l) == IF l.hasTextInfo /\ l.fontSize # 0 THEN l.fontSize ELSE 16
HeadingMembers(c) == {i \in TextMembers(c) : MemberFontSize(c[i]) >= 24}
BodyMembers(c) == {i \in TextMembers(c) : MemberFontSize(c[i]) < 24}
RegularImages(c) ==
    {i \in ImageMembers(c) : c[i].bounds.width > 100 \/ c[i].bounds.height > 100}
SmallImages(c) == ImageMembers(c) \ RegularImages(c)
\* the button profile: width <= 300, height <= 80, width / height in [2, 6]
ButtonProfile(l) ==
    /\ l.bounds.width > 0 /\ l.bounds.height > 0
    /\ l.bounds.width <= 300 /\ l.bounds.height <= 80
    /\ 2 * l.bounds.height <= l.bounds.width
    /\ l.bounds.width <= 6 * l.bounds.height
ButtonShapedMembers(c) == {i \in 1..Len(c) : ButtonProfile(c[i])}

Verdict(type, conf) == [widgetType |-> type, confidence |-> conf]
VerdictOf(inf) == [widgetType |-> inf.widgetType, confidence |-> inf.confidence]

\* the decision list as the claim states it
RulesAsClaimed(c) ==
    IF RegularImages(c) # {} /\ HeadingMembers(c) # {} THEN Verdict("image-box", 85)
    ELSE IF SmallImages(c) # {} /\ HeadingMembers(c) # {} /\ BodyMembers(c) # {}
    THEN Verdict("icon-box", 80)
    ELSE IF ButtonShapedMembers(c) # {} /\ Cardinality(TextMembers(c)) = 1
    THEN Verdict("button", 75)
    ELSE IF Cardinality(TextMembers(c)) >= 3 /\ ImageMembers(c) = {}
    THEN Verdict("icon-list", 70)
    ELSE Verdict("container", 50)

\* the decision list with rule 3 looking at image and shape members only and
\* rule 4 excluding regular images only
RulesAmended(c) ==
    IF RegularImages(c) # {} /\ HeadingMembers(c) # {} THEN Verdict("image-box", 85)
    ELSE IF SmallImages(c) # {} /\ HeadingMembers(c) # {} /\ BodyMembers(c) # {}
    THEN Verdict("icon-box", 80)
    ELSE IF (ButtonShapedMembers(c) \cap ImageMembers(c)) # {}
            /\ Cardinality(TextMembers(c)) = 1
    THEN Verdict("button", 75)
    ELSE IF Cardinality(TextMembers(c)) >= 3 /\ RegularImages(c) = {}
    THEN Verdict("icon-list", 70)
    ELSE Verdict("container", 50)

\* C6 as stated: for a cluster of two or more layers inferWidgetType returns
\* the first match of: regular image and heading -> image-box 0.85; small
\* image, heading and body text -> icon-box 0.8; a button-shaped member and
\* exactly one text member -> button 0.75; three or more texts and no image
\* -> icon-list 0.7; otherwise container 0.5.
C6_RuleOrderAsClaimed ==
    (InferDone /\ Len(inferCluster) >= 2) =>
        VerdictOf(inferred) = RulesAsClaimed(inferCluster)

\* C6 amended: the same decision list, where rule 3 asks for a button-shaped
\* image or shape member (text members are not tested against the button
\* profile) and rule 4 asks for no regular image (small images may be there).
C6_RuleOrder ==
    (InferDone /\ Len(inferCluster) >= 2) =>
        VerdictOf(inferred) = RulesAmended(inferCluster)

\* a regular image and a heading next to a small image and a body text:
\* rules 1 and 2 both match and the first one wins
C6_Witness ==
    /\ InferDone
    /\ RegularImages(inferCluster) # {} /\ SmallImages(inferCluster) # {}
    /\ HeadingMembers(inferCluster) # {} /\ BodyMembers(inferCluster) # {}
    /\ inferred.widgetType = "image-box"

\* C7 as stated: icon-list is returned only for clusters with at least three
\* text members and no image or shape member of any size.
C7_IconListNoImageAtAll ==
    (InferDone /\ inferred.widgetType = "icon-list") =>
        /\ Cardinality(TextMembers(inferCluster)) >= 3
        /\ ImageMembers(inferCluster) = {}

\* C7 amended: icon-list is returned only for clusters with at least three
\* text members and no regular image or shape member (wider or taller than
\* 100); small, icon-sized members may be present.
C7_IconListNoRegularImage ==
    (InferDone /\ inferred.widgetType = "icon-list") =>
        /\ Cardinality(TextMembers(inferCluster)) >= 3
        /\ RegularImages(inferCluster) = {}

\* an icon-list that holds a small image next to its three texts
C7_Witness ==
    /\ InferDone
    /\ inferred.widgetType = "icon-list"
    /\ SmallImages(inferCluster) # {}
    /\ Cardinality(TextMembers(inferCluster)) = 3

(***************************************************************************)
(* Properties of classifyLayers and generateElementorJson                  *)
(***************************************************************************)
ClassifyDone == pc \in {"classify_done", "generate_done"}
GenerateDone == pc = "generate_done"

\* every layer of a tree, at any depth
RECURSIVE NodesOf(_)
NodesOf(ls) ==
    UNION {{ls[i]} \cup NodesOf(ChildrenOf(ls[i])) : i \in 1..Len(ls)}

ComplexTypes == {"image-box", "icon-box", "icon-list", "container", "button"}

\* one of the children was classified as a composite widget, a container or a
\* button
HasComplexChild(node) ==
    \E i \in 1..Len(ChildrenOf(node)) :
        WidgetTypeOf(node.children[i]) \in ComplexTypes

\* C4: a group one of whose classified children is an image-box, an icon-box,
\* an icon-list, a container or a button is not turned into a composite
\* widget and is not marked isComposite, whatever its other children are.
C4_ComplexChildSuppresses ==
    ClassifyDone =>
        \A node \in NodesOf(classifiedLayers) :
            HasComplexChild(node) =>
                /\ WidgetTypeOf(node) \notin COMPOSITE_WIDGETS
                /\ ~IsComposite(node)

\* a group stays a container although its children, but for the complex one,
\* match a composite pattern
C4_Witness ==
    /\ ClassifyDone
    /\ \E node \in NodesOf(classifiedLayers) :
          /\ HasComplexChild(node)
          /\ CompositeOfTypesUnsuppressed(TypesOf(node.children)) # NoComposite
          /\ WidgetTypeOf(node) = "container"
          /\ ~IsComposite(node)

\* C5: every element of the content array generateElementorJson returns has
\* elType "container"; widgets, composite ones included, appear only inside
\* a container.
C5_RootContainers ==
    (GenerateDone /\ ~elementorJson.threw) =>
        \A i \in 1..Len(elementorJson.value.content) :
            elementorJson.value.content[i].elType = "container"

(***************************************************************************)
(* Properties of calculateGap and calculateLayout                          *)
(***************************************************************************)
GapDone == pc = "gap_done"
LayoutDone == pc = "layout_done"

\* the positive gaps between consecutive children along the axis, ascending
SortedGaps(children, direction) ==
    SortNumbers(PositiveGaps(IF direction = "row" THEN SortByLeft(children)
                             ELSE SortByTop(children), direction))

\* twice the median of an ascending list: the middle value counted twice, or
\* the sum of the two middle values
MedianTwice(sorted) ==
    IF Len(sorted) % 2 = 1 THEN 2 * sorted[(Len(sorted) + 1) \div 2]
    ELSE sorted[Len(sorted) \div 2] + sorted[(Len(sorted) \div 2) + 1]

\* C8: calculateGap returns the median of the positive consecutive gaps, the
\* mean of the two middle values when their number is even.
C8_MedianOfPositiveGaps ==
    (GapDone /\ Len(SortedGaps(layoutChildren, gapDirection)) > 0) =>
        2 * gapResult = MedianTwice(SortedGaps(layoutChildren, gapDirection))

\* C9 as stated: calculateGap returns 0 whenever fewer than two of the
\* consecutive gaps are positive.
C9_ZeroBelowTwoGaps ==
    (GapDone /\ Len(SortedGaps(layoutChildren, gapDirection)) < 2) =>
        gapResult = 0

\* C9: calculateGap returns 0 when none of the consecutive gaps is positive
\* (fewer than two children included) and only then; when exactly one gap is
\* positive it returns that gap.
C9_ZeroWithoutPositiveGap ==
    GapDone =>
        /\ (gapResult = 0) <=> (Len(SortedGaps(layoutChildren, gapDirection)) = 0)
        /\ Len(SortedGaps(layoutChildren, gapDirection)) = 1 =>
               gapResult = SortedGaps(layoutChildren, gapDirection)[1]

\* exactly one positive gap, which is returned
C9_Witness ==
    /\ GapDone
    /\ Len(layoutChildren) >= 2
    /\ Len(SortedGaps(layoutChildren, gapDirection)) = 1
    /\ gapResult = SortedGaps(layoutChildren, gapDirection)[1]
    /\ gapResult > 0

\* the lines the sweep over the visible children sorted by top detects
SweepLines(children) == RowsOfSorted(SortByTop(GetVisibleChildren(children)))

\* C10 as stated: with two or more visible children in a row, wrap is "wrap"
\* if and only if the sweep detects more than one line.
C10_WrapIffLinesFromTwo ==
    (/\ LayoutDone
     /\ Len(GetVisibleChildren(layoutChildren)) >= 2
     /\ layoutResult.direction = "row") =>
        ((layoutResult.wrap = "wrap") <=> (SweepLines(layoutChildren) > 1))

\* C10: with three or more visible children in a row, wrap is "wrap" if and
\* only if the sweep detects more than one line; with exactly two visible
\* children wrap is "nowrap" whatever the sweep would detect.
C10_WrapIffLinesFromThree ==
    LayoutDone =>
        /\ (Len(GetVisibleChildren(layoutChildren)) >= 3
            /\ layoutResult.direction = "row") =>
               ((layoutResult.wrap = "wrap") <=> (SweepLines(layoutChildren) > 1))
        /\ Len(GetVisibleChildren(layoutChildren)) = 2 =>
               layoutResult.wrap = "nowrap"

\* three visible children in a row on more than one line
C10_Witness ==
    /\ LayoutDone
    /\ Len(GetVisibleChildren(layoutChildren)) >= 3
    /\ layoutResult.direction = "row"
    /\ SweepLines(layoutChildren) > 1
    /\ layoutResult.wrap = "wrap"

(***************************************************************************)
(* Properties of detectFlexDirection                                       *)
(***************************************************************************)
DirectionDone == pc = "direction_done"

\* the height two boxes share, 0 when one lies wholly above the other
SharedHeight(a, b) ==
    IF Min2(a.bottom, b.bottom) > Max2(a.top, b.top)
    THEN Min2(a.bottom, b.bottom) - Max2(a.top, b.top)
    ELSE 0

\* some pair of children shares more than 30% of the smaller height
SomePairSharesALine(children) ==
    \E i, j \in 1..Len(children) :
        /\ i < j
        /\ 10 * SharedHeight(children[i].bounds, children[j].bounds)
               > 3 * Min2(children[i].bounds.height, children[j].bounds.height)

\* C11: detectFlexDirection returns "row" if and only if some pair of
\* children overlaps vertically by strictly more than 30% of the smaller of
\* the two heights, and "column" otherwise, whatever the order of the
\* children.
C11_RowIffPairOverlaps ==
    DirectionDone =>
        /\ directionResult \in {"row", "column"}
        /\ (directionResult = "row") <=> SomePairSharesALine(layoutChildren)
        /\ DetectFlexDirection(Reverse(layoutChildren)) = directionResult

\* two children that overlap by exactly 30% of the smaller height give column
C11_Witness ==
    /\ DirectionDone
    /\ Len(layoutChildren) = 2
    /\ directionResult = "column"
    /\ SharedHeight(layoutChildren[1].bounds, layoutChildren[2].bounds) > 0
    /\ 10 * SharedHeight(layoutChildren[1].bounds, layoutChildren[2].bounds)
           = 3 * Min2(layoutChildren[1].bounds.height, layoutChildren[2].bounds.height)

(***************************************************************************)
(* Properties of smartDistance                                             *)
(***************************************************************************)
DistanceDone == pc = "distance_done"

\* the gaps between two boxes along each axis, 0 when they overlap on it
VerticalGap(a, b) == Max2(0, Max2(b.top - a.bottom, a.top - b.bottom))
HorizontalGap(a, b) == Max2(0, Max2(b.left - a.right, a.left - b.right))

\* C12 as stated: smartDistance returns the vertical gap whenever it is
\* nonzero, otherwise the horizontal gap.
C12_VerticalGapFirst ==
    DistanceDone =>
        distance = IF VerticalGap(boxA, boxB) # 0 THEN VerticalGap(boxA, boxB)
                   ELSE HorizontalGap(boxA, boxB)

\* C12: smartDistance returns the horizontal gap when the vertical gap is 0,
\* the vertical gap when the horizontal gap is 0, and the smaller of the two
\* when both are nonzero; it is 0 only when the boxes overlap on both axes.
C12_SmallerGapWhenBoth ==
    DistanceDone =>
        /\ VerticalGap(boxA, boxB) = 0 => distance = HorizontalGap(boxA, boxB)
        /\ HorizontalGap(boxA, boxB) = 0 => distance = VerticalGap(boxA, boxB)
        /\ (VerticalGap(boxA, boxB) # 0 /\ HorizontalGap(boxA, boxB) # 0) =>
               distance = Min2(VerticalGap(boxA, boxB), HorizontalGap(boxA, boxB))

\* diagonally separated boxes whose horizontal gap is the smaller one
C12_Witness ==
    /\ DistanceDone
    /\ VerticalGap(boxA, boxB) > HorizontalGap(boxA, boxB)
    /\ HorizontalGap(boxA, boxB) > 0
    /\ distance = HorizontalGap(boxA, boxB)

(***************************************************************************)
(* Properties of ImageBoxContentClassifier.classify                        *)
(***************************************************************************)
BoxDone == pc = "box_done"

\* the text candidates as scoring sees them, and the score of each
Candidates == SelectSeq(boxChildrenAfter, LAMBDA c : c.type = "text")
TopScore == SeqMax([i \in 1..Len(Candidates) |-> ScoreOf(Candidates[i])])
LowScore == SeqMin([i \in 1..Len(Candidates) |-> ScoreOf(Candidates[i])])
TopScorers == {i \in 1..Len(Candidates) : ScoreOf(Candidates[i]) = TopScore}

\* C13: when the two highest scores are equal, heading is the topmost and
\* description the bottommost of the layers tied for the highest score; a
\* layer with a strictly lower score never becomes the heading.
C13_TieBrokenAmongTied ==
    (BoxDone /\ Len(Candidates) >= 2 /\ Cardinality(TopScorers) >= 2) =>
        /\ \E i \in TopScorers :
              /\ boxResult.heading = Candidates[i]
              /\ \A k \in TopScorers :
                    Candidates[i].bounds.top <= Candidates[k].bounds.top
        /\ \E i \in TopScorers :
              /\ boxResult.description = Candidates[i]
              /\ \A k \in TopScorers :
                    Candidates[i].bounds.top >= Candidates[k].bounds.top

PairwiseDistinctScores ==
    \A i, k \in 1..Len(Candidates) :
        i # k => ScoreOf(Candidates[i]) # ScoreOf(Candidates[k])

\* C14: with two or more text candidates whose scores are pairwise distinct,
\* heading is the layer with the highest score and description the layer
\* with the lowest score, and the reversed input list gives the same two.
C14_HighestAndLowest ==
    (BoxDone /\ Len(Candidates) >= 2 /\ PairwiseDistinctScores) =>
        /\ ScoreOf(boxResult.heading) = TopScore
        /\ ScoreOf(boxResult.description) = LowScore
        /\ \E i \in 1..Len(Candidates) : boxResult.heading = Candidates[i]
        /\ \E i \in 1..Len(Candidates) : boxResult.description = Candidates[i]
        /\ ClassifyImageBox(Reverse(boxChildren)).heading = boxResult.heading
        /\ ClassifyImageBox(Reverse(boxChildren)).description = boxResult.description

\* three candidates of distinct scores given lowest first
C14_Witness ==
    /\ BoxDone
    /\ Len(Candidates) = 3
    /\ PairwiseDistinctScores
    /\ ScoreOf(Candidates[1]) = LowScore
    /\ ScoreOf(Candidates[3]) = TopScore
    /\ boxResult.heading = Candidates[3]
    /\ boxResult.description = Candidates[1]

\* C17: no core inference operation changes a field of the input layer
\* objects; here, after classify every child is what it was before the call.
C17_InputsUnchanged ==
    BoxDone => boxChildrenAfter = boxChildren

(***************************************************************************)
(* Properties of the thresholds processLayers clusters with                *)
(***************************************************************************)
SetMin(S) == CHOOSE x \in S : \A y \in S : x <= y
SetMax(S) == CHOOSE x \in S : \A y \in S : x >= y

\* the groups of layers linked by chains of hops of at most th, as index sets
ComponentsOf(ls, th) == {ChainClosure({i}, ls, th) : i \in 1..Len(ls)}

\* the box around the layers of an index set
UnionBox(ls, K) ==
    Bounds(SetMin({ls[i].bounds.top : i \in K}),
           SetMin({ls[i].bounds.left : i \in K}),
           SetMax({ls[i].bounds.right : i \in K}),
           SetMax({ls[i].bounds.bottom : i \in K}))

ComponentBoxes(ls, th) == {UnionBox(ls, K) : K \in ComponentsOf(ls, th)}

\* the layers of an index set, in input order
Members(ls, K) == SelectSeq(ls, LAMBDA l : \E i \in K : ls[i] = l)

\* the elements built from the top-level clusters: the root itself, the
\* children of the root column, and the children of the row containers
RowMembers(e) ==
    IF e.name \in {"Row Container", "Card Row"}
    THEN {e.children[i] : i \in 1..Len(e.children)}
    ELSE {e}

TopElements(tree) ==
    IF tree[1].name = "Root Container"
    THEN UNION {RowMembers(tree[1].children[i]) : i \in 1..Len(tree[1].children)}
    ELSE RowMembers(tree[1])

BoxesOf(elements) == {e.bounds : e \in elements}

Returns == AdapterDone /\ Len(ValidLeaves(rawLayers)) > 0 /\ ~rawResult.threw

\* a top-level cluster of several layers that became a container splits into
\* the groups linked by hops of at most sub
SubClustersAt(th, sub) ==
    \A K \in ComponentsOf(ValidLeaves(rawLayers), th) :
        \A e \in TopElements(rawResult.value) :
            (/\ e.bounds = UnionBox(ValidLeaves(rawLayers), K)
             /\ e.widgetType = "container"
             /\ Cardinality(K) > 1
             /\ Cardinality(ComponentsOf(Members(ValidLeaves(rawLayers), K), sub)) > 1)
            => BoxesOf({e.children[i] : i \in 1..Len(e.children)})
                   = ComponentBoxes(Members(ValidLeaves(rawLayers), K), sub)

\* C15 as stated: the top-level clusters are the groups of leaves linked by
\* hops of at most 20px, and a container is sub-clustered at 12px.
C15_ClustersAtTwenty ==
    Returns =>
        /\ BoxesOf(TopElements(rawResult.value))
               = ComponentBoxes(ValidLeaves(rawLayers), 20)
        /\ SubClustersAt(20, 12)

\* the clusters step 3 of processLayers hands to detectContainerBoundaries
TopClusters == ClusterByProximity(ValidLeaves(rawLayers), PROXIMITY_THRESHOLD)

\* the layers of each cluster, and of each group of linked layers, by id
ClusterIds(cs) == {{cs[i][j].id : j \in 1..Len(cs[i])} : i \in 1..Len(cs)}
ComponentIds(ls, th) == {{ls[i].id : i \in K} : K \in ComponentsOf(ls, th)}

\* C15: for every input with a valid leaf, whether the call then returns a
\* tree or throws, processLayers clusters the valid leaves at
\* CONFIG.PROXIMITY_THRESHOLD, 50px: its clusters are the groups of leaves
\* linked by hops of at most 50px.  subClusterLayers splits a cluster that was
\* inferred to be a container at 0.6 times that, 30px.  In a returned tree
\* the top-level elements are those clusters and a container of several
\* layers holds the 30px groups.
C15_ClustersAtFifty ==
    /\ (AdapterDone /\ Len(ValidLeaves(rawLayers)) > 0) =>
          /\ ClusterIds(TopClusters) = ComponentIds(ValidLeaves(rawLayers), 50)
          /\ \A i \in 1..Len(TopClusters) :
                InferWidgetType(TopClusters[i]).widgetType = "container"
                => ClusterIds(SubClusterLayers(TopClusters[i]))
                       = ComponentIds(TopClusters[i], 30)
    /\ Returns =>
          /\ BoxesOf(TopElements(rawResult.value))
                 = ComponentBoxes(ValidLeaves(rawLayers), 50)
          /\ SubClustersAt(50, 30)

\* two leaves more than 20px and at most 50px apart share a top-level
\* cluster, which became a container split at 30px
C15_Witness ==
    /\ Returns
    /\ ComponentsOf(ValidLeaves(rawLayers), 20) # ComponentsOf(ValidLeaves(rawLayers), 50)
    /\ \E K \in ComponentsOf(ValidLeaves(rawLayers), 50) :
          \E e \in TopElements(rawResult.value) :
             /\ e.bounds = UnionBox(ValidLeaves(rawLayers), K)
             /\ e.widgetType = "container"
             /\ Cardinality(K) > 1
             /\ Cardinality(ComponentsOf(Members(ValidLeaves(rawLayers), K), 30)) > 1
             /\ Len(e.children) > 1

(***************************************************************************)
(* Properties of processLayers on non-finite bounds                        *)
(***************************************************************************)
HasNonFinite(bounds) == "nan" \in DOMAIN bounds /\ bounds.nan # {}

NonFiniteLeaves(ls) ==
    {i \in 1..Len(FlattenLayers(ls)) : HasNonFinite(FlattenLayers(ls)[i].bounds)}

\* C16: an input with a leaf whose bounds hold a non-finite value makes
\* processLayers fail; the leaf is never silently filtered out.
C16_NonFiniteRejected ==
    (AdapterDone /\ NonFiniteLeaves(rawLayers) # {}) => rawResult.threw

(***************************************************************************)
(* Properties of processLayers across canvas widths and across calls       *)
(***************************************************************************)
RowsAt(width) ==
    DetectContainerBoundaries(
        ClusterByProximity(ValidLeaves(rawLayers), PROXIMITY_THRESHOLD), width)

\* C18: for the same layers, processLayers gives the same outcome and
\* detectContainerBoundaries the same rows at every canvas width.
C18_CanvasWidthIgnored ==
    AdapterDone =>
        \A width \in CanvasWidths :
            /\ ProcessLayers(rawLayers, width) = rawResult
            /\ RowsAt(width) = RowsAt(canvasWidth)

\* processLayers has returned a tree with a row of two clusters, one of which
\* reaches beyond the narrow canvas
C18_Witness ==
    /\ Returns
    /\ canvasWidth = 300
    /\ \E e \in TopElements(rawResult.value) : e.bounds.right > 300
    /\ \E i \in 1..Len(RowsAt(canvasWidth)) : Len(RowsAt(canvasWidth)[i].items) > 1

AdapterAgain == pc = "adapter_again"

\* a tree with 0 in place of every identifier generateId made
RECURSIVE WithoutGeneratedIds(_)
WithoutGeneratedId(e) ==
    [e EXCEPT !.id = IF "isSmartDetected" \in DOMAIN e /\ e.id > GenerateId(0)
                     THEN 0 ELSE e.id,
              !.children = WithoutGeneratedIds(e.children)]

WithoutGeneratedIds(es) == [i \in 1..Len(es) |-> WithoutGeneratedId(es[i])]

Structure(outcome) ==
    IF outcome.threw THEN outcome ELSE Returned(WithoutGeneratedIds(outcome.value))

BoundsDone == pc = "bounds_done"

\* C20: the box of a non-empty cluster contains every member, has
\* width = right - left and height = bottom - top, and each of its four
\* edges is the edge of some member.
C20_TightUnionBox ==
    (BoundsDone /\ Len(layers) > 0) =>
        /\ \A i \in 1..Len(layers) :
              /\ boundsResult.top <= layers[i].bounds.top
              /\ boundsResult.left <= layers[i].bounds.left
              /\ boundsResult.right >= layers[i].bounds.right
              /\ boundsResult.bottom >= layers[i].bounds.bottom
        /\ boundsResult.width = boundsResult.right - boundsResult.left
        /\ boundsResult.height = boundsResult.bottom - boundsResult.top
        /\ \E i \in 1..Len(layers) : boundsResult.top = layers[i].bounds.top
        /\ \E i \in 1..Len(layers) : boundsResult.left = layers[i].bounds.left
        /\ \E i \in 1..Len(layers) : boundsResult.right = layers[i].bounds.right
        /\ \E i \in 1..Len(layers) : boundsResult.bottom = layers[i].bounds.bottom

\* the box of three layers is the box of none of them, and the first layer
\* does not reach the right edge
C20_Witness ==
    /\ BoundsDone
    /\ Len(layers) = 3
    /\ \A i \in 1..3 : layers[i].bounds # boundsResult
    /\ layers[1].bounds.right < boundsResult.right

(***************************************************************************)
(* Properties of groupIntoRows                                             *)
(***************************************************************************)
RowsDone == pc = "rows_done"
BoundariesDone == pc = "boundaries_done"

RECURSIVE Concat(_)
Concat(seqs) == IF seqs = <<>> THEN <<>> ELSE Head(seqs) \o Concat(Tail(seqs))

\* the position in the visiting order of the first cluster of row r
RECURSIVE RowStart(_, _)
RowStart(rows, r) == IF r = 1 THEN 1 ELSE RowStart(rows, r - 1) + Len(rows[r - 1])

RowOf(rows, k) ==
    CHOOSE r \in 1..Len(rows) : RowStart(rows, r) <= k /\ k < RowStart(rows, r) + Len(rows[r])

\* the union of the boxes of the clusters visited at positions from..to
RunningBounds(cs, from, to) ==
    Bounds(SetMin({CalculateClusterBounds(cs[i]).top : i \in from..to}),
           SetMin({CalculateClusterBounds(cs[i]).left : i \in from..to}),
           SetMax({CalculateClusterBounds(cs[i]).right : i \in from..to}),
           SetMax({CalculateClusterBounds(cs[i]).bottom : i \in from..to}))

\* the cluster at position k overlaps the row open before it by more than 30%
\* of the smaller height
JoinsOpenRow(cs, rows, k) ==
    LET open == RunningBounds(cs, RowStart(rows, RowOf(rows, k - 1)), k - 1)
        box == CalculateClusterBounds(cs[k])
        overlap == Max2(0, Min2(open.bottom, box.bottom) - Max2(open.top, box.top))
    IN  10 * overlap > 3 * Min2(open.bottom - open.top, box.bottom - box.top)

AscendingTops(cs) ==
    \A i, j \in 1..Len(cs) :
        i < j => CalculateClusterBounds(cs[i]).top <= CalculateClusterBounds(cs[j]).top

\* C21: the rows are consecutive runs of the visited clusters, none empty; a
\* cluster is in the row of the cluster before it iff its vertical overlap
\* with the union of that row so far is strictly more than 30% of the smaller
\* of the two heights; and detectContainerBoundaries hands groupIntoRows the
\* clusters in ascending top order.
C21_RowMergeRule ==
    /\ RowsDone =>
          /\ Concat(rowsResult) = rowClusters
          /\ \A r \in 1..Len(rowsResult) : Len(rowsResult[r]) > 0
          /\ \A k \in 2..Len(rowClusters) :
                (RowOf(rowsResult, k) = RowOf(rowsResult, k - 1))
                    <=> JoinsOpenRow(rowClusters, rowsResult, k)
    /\ (BoundariesDone /\ Len(rowClusters) >= 2) =>
          AscendingTops(Concat([r \in 1..Len(boundaries) |->
                                  [i \in 1..Len(boundaries[r].items) |->
                                      boundaries[r].items[i].items]]))

\* three clusters in ascending top order in one row, the third of which
\* overlaps the row but not the second cluster
C21_Witness ==
    /\ RowsDone
    /\ Len(rowClusters) = 3
    /\ AscendingTops(rowClusters)
    /\ Len(rowsResult) = 1
    /\ GetVerticalOverlap(CalculateClusterBounds(rowClusters[2]),
                          CalculateClusterBounds(rowClusters[3])) = 0

(***************************************************************************)
(* Properties of detectContainerBoundaries                                 *)
(***************************************************************************)
\* the clusters of the returned rows, in order, for rows that are arrays of
\* arrays
ClustersOfRows(rows) ==
    Concat([r \in 1..Len(rows) |->
               [i \in 1..Len(rows[r].items) |-> rows[r].items[i].items]])

IsPermutationOf(a, b) ==
    /\ Len(a) = Len(b)
    /\ \E f \in [1..Len(a) -> 1..Len(a)] :
          /\ \A i, j \in 1..Len(a) : i # j => f[i] # f[j]
          /\ \A i \in 1..Len(a) : a[i] = b[f[i]]

\* C26: for a non-empty list of clusters, one cluster included, every
\* returned row is a non-empty array of clusters (arrays of layers), and the
\* rows put end to end are the input clusters, each once, in ascending top
\* order.
C26_RowsOfClusters ==
    (BoundariesDone /\ Len(rowClusters) >= 1) =>
        /\ \A r \in 1..Len(boundaries) :
              /\ IsArray(boundaries[r])
              /\ Len(boundaries[r].items) > 0
              /\ \A i \in 1..Len(boundaries[r].items) : IsArray(boundaries[r].items[i])
        /\ IsPermutationOf(ClustersOfRows(boundaries), rowClusters)
        /\ AscendingTops(ClustersOfRows(boundaries))

(***************************************************************************)
(* Properties of calculateLayout                                           *)
(***************************************************************************)
\* the children that are not hidden and have a positive width and height
VisibleCount ==
    Cardinality({i \in 1..Len(layoutChildren) :
                    /\ layoutChildren[i].visible
                    /\ layoutChildren[i].bounds.right > layoutChildren[i].bounds.left
                    /\ layoutChildren[i].bounds.bottom > layoutChildren[i].bounds.top})

DefaultLayout ==
    [direction |-> "column", wrap |-> "nowrap", gap |-> 0,
     justifyContent |-> "flex-start", alignItems |-> "stretch"]

\* C22: with fewer than 2 visible children calculateLayout returns the
\* default record; otherwise a row has space-between and flex-start, a column
\* has nowrap, flex-start and stretch, and the gap is never negative.
C22_ConsistentLayout ==
    LayoutDone =>
        IF VisibleCount < 2 THEN layoutResult = DefaultLayout
        ELSE /\ layoutResult.direction \in {"row", "column"}
             /\ layoutResult.wrap \in {"wrap", "nowrap"}
             /\ layoutResult.direction = "row" =>
                   /\ layoutResult.justifyContent = "space-between"
                   /\ layoutResult.alignItems = "flex-start"
             /\ layoutResult.direction = "column" =>
                   /\ layoutResult.wrap = "nowrap"
                   /\ layoutResult.justifyContent = "flex-start"
                   /\ layoutResult.alignItems = "stretch"
             /\ layoutResult.gap >= 0

\* a child of zero width beside a visible one on the same line: one visible
\* child, and the default layout
C22_Witness ==
    /\ LayoutDone
    /\ Len(layoutChildren) = 2
    /\ VisibleCount = 1
    /\ \A i \in 1..2 : layoutChildren[i].visible
    /\ layoutResult = DefaultLayout

(***************************************************************************)
(* Properties of getRelativePosition and inferFlexDirection                *)
(***************************************************************************)
PositionDone == pc = "position_done"
FlexDone == pc = "flex_done"

\* where the center of the image lies with respect to the text, on each axis
\* (twice the coordinates, to compare half pixels exactly)
CenterLeftOfText == 2 * relImage.left + relImage.width < 2 * relText.left
CenterRightOfText == 2 * relImage.left + relImage.width > 2 * relText.right
CenterAboveText == 2 * relImage.top + relImage.height < 2 * relText.top
CenterBelowText == 2 * relImage.top + relImage.height > 2 * relText.bottom

PositionAsClaimed ==
    IF CenterLeftOfText THEN "left"
    ELSE IF CenterRightOfText THEN "right"
    ELSE IF CenterAboveText THEN "top"
    ELSE IF CenterBelowText THEN "bottom"
    ELSE "overlapping"

\* C23: the position is left, right, top, bottom or overlapping by the
\* center of the image, the horizontal tests first, and inferFlexDirection
\* answers row, row-reverse, column, column-reverse, row for them.
C23_HorizontalFirst ==
    /\ PositionDone => positionResult = PositionAsClaimed
    /\ FlexDone =>
          flexResult = (CASE PositionAsClaimed = "left" -> "row"
                          [] PositionAsClaimed = "right" -> "row-reverse"
                          [] PositionAsClaimed = "top" -> "column"
                          [] PositionAsClaimed = "bottom" -> "column-reverse"
                          [] PositionAsClaimed = "overlapping" -> "row")

\* an image whose center is both right of the text and above it: right
C23_Witness ==
    /\ PositionDone
    /\ CenterRightOfText
    /\ CenterAboveText
    /\ positionResult = "right"

(***************************************************************************)
(* Properties of inferWidgetType on single layers                          *)
(***************************************************************************)
\* the font size of a text layer, 16 when it carries none
ClaimedFontSize(layer) ==
    IF layer.hasTextInfo /\ layer.fontSize > 0 THEN layer.fontSize ELSE 16

\* width <= 300, height <= 80 and width / height in [2, 6]
ClaimedButtonProfile(layer) ==
    LET w == layer.bounds.right - layer.bounds.left
        h == layer.bounds.bottom - layer.bounds.top
    IN  w > 0 /\ h > 0 /\ w <= 300 /\ h <= 80 /\ 2 * h <= w /\ w <= 6 * h

SingleLayerType(layer) ==
    IF layer.type = "text"
    THEN (IF ClaimedFontSize(layer) >= 24 THEN "heading" ELSE "text-editor")
    ELSE IF ClaimedButtonProfile(layer) THEN "button"
    ELSE IF layer.type \in {"image", "shape"} THEN "image"
    ELSE "container"

\* C24: a single layer is heading or text-editor by its font size (16 when
\* missing) if it is a text, else button if it has the button profile, else
\* image if it is an image or a shape, else container with confidence 0.3;
\* an empty cluster is a container with confidence 0; every confidence is
\* within [0, 1] (in hundredths).
C24_SingleLayerOrder ==
    InferDone =>
        /\ inferred.confidence \in 0..100
        /\ Len(inferCluster) = 0 =>
              inferred.widgetType = "container" /\ inferred.confidence = 0
        /\ Len(inferCluster) = 1 =>
              /\ inferred.widgetType = SingleLayerType(inferCluster[1])
              /\ (inferred.widgetType = "container") => (inferred.confidence = 30)

\* a shape exactly six times as wide as high is a button, not an image
C24_Witness ==
    /\ InferDone
    /\ Len(inferCluster) = 1
    /\ inferCluster[1].type = "shape"
    /\ inferCluster[1].bounds.width = 6 * inferCluster[1].bounds.height
    /\ inferred.widgetType = "button"

(***************************************************************************)
(* Properties of classifyLayers on groups of headings and texts            *)
(***************************************************************************)
\* a group with children that its own name and shape make a container
GroupAsContainer(node) ==
    Len(ChildrenOf(node)) > 0 /\ DetermineWidgetType(node) = "container"

ChildTypes(node) == {WidgetTypeOf(node.children[i]) : i \in 1..Len(node.children)}

\* a heading and a text among the children, no image and no complex child
HeadingAndText(node) ==
    /\ "heading" \in ChildTypes(node)
    /\ "text-editor" \in ChildTypes(node)
    /\ "image" \notin ChildTypes(node)
    /\ ChildTypes(node) \cap ComplexTypes = {}

TextChildren(node) ==
    Cardinality({i \in 1..Len(node.children) :
                    WidgetTypeOf(node.children[i]) \in {"heading", "text-editor"}})

\* C25 as stated: a container group with a heading and a text among its
\* children, no image and no complex child, becomes an icon-box however many
\* text children it has.
C25_IconBoxAnyCount ==
    ClassifyDone =>
        \A node \in NodesOf(classifiedLayers) :
            (GroupAsContainer(node) /\ HeadingAndText(node)) =>
                WidgetTypeOf(node) = "icon-box"

\* C25: such a group becomes an icon-box when its headings and texts are two
\* in all, and an icon-list when they are three or more.
C25_IconBoxUpToTwoTexts ==
    ClassifyDone =>
        \A node \in NodesOf(classifiedLayers) :
            (GroupAsContainer(node) /\ HeadingAndText(node)) =>
                /\ IsComposite(node)
                /\ WidgetTypeOf(node) =
                      (IF TextChildren(node) >= 3 THEN "icon-list" ELSE "icon-box")

\* a group of two headings and a text has become an icon-list
C25_Witness ==
    /\ ClassifyDone
    /\ \E node \in NodesOf(classifiedLayers) :
          /\ GroupAsContainer(node)
          /\ HeadingAndText(node)
          /\ TextChildren(node) = 3
          /\ WidgetTypeOf(node) = "icon-list"

(***************************************************************************)
(* Properties of re-clustering and of the depth of processCluster          *)
(***************************************************************************)
ReclusterDone == pc = "recluster_done"

IdsOf(ls) == {ls[i].id : i \in 1..Len(ls)}

\* the number of levels of children below an element
RECURSIVE Depth(_)
Depth(e) ==
    IF Len(e.children) = 0 THEN 0
    ELSE 1 + SetMax({Depth(e.children[i]) : i \in 1..Len(e.children)})

\* C27: clusterByProximity at a threshold, applied to a cluster it produced
\* at that threshold, returns exactly one cluster, with the same layers;
\* subClusterLayers applied to a sub-cluster it produced returns it whole; and
\* the element made of a top-level cluster has at most two levels below it:
\* its sub-clusters and their layers.
C27_ReclusterIsOneCluster ==
    /\ ReclusterDone =>
          \A i \in 1..Len(reclustered.clusters) :
              /\ Len(reclustered.again[i]) = 1
              /\ IdsOf(reclustered.again[i][1]) = IdsOf(reclustered.clusters[i])
              /\ Len(reclustered.again[i][1]) = Len(reclustered.clusters[i])
    /\ ReclusterDone =>
          \A i \in 1..Len(reclustered.subClusters) :
              reclustered.subAgain[i] = <<reclustered.subClusters[i]>>
    /\ Returns => \A e \in TopElements(rawResult.value) : Depth(e) <= 2

\* a container of three layers holds a sub-cluster of two layers that was a
\* container itself and was not split again
C27_DepthTwoReached ==
    /\ Returns
    /\ \E e \in TopElements(rawResult.value) :
          /\ Depth(e) = 2
          /\ \E i \in 1..Len(e.children) :
                /\ e.children[i].widgetType = "container"
                /\ Len(e.children[i].children) = 2

\* a cluster of two layers 10px apart came back as one cluster at 30px
C27_Witness ==
    /\ ReclusterDone
    /\ reclustered.threshold = 30
    /\ \E i \in 1..Len(reclustered.clusters) :
          /\ Len(reclustered.clusters[i]) = 2
          /\ Len(reclustered.again[i][1]) = 2

(***************************************************************************)
(* Properties of the bounds in the tree processLayers returns              *)
(***************************************************************************)
Contains(outer, inner) ==
    /\ outer.top <= inner.top
    /\ outer.left <= inner.left
    /\ outer.right >= inner.right
    /\ outer.bottom >= inner.bottom

\* C28: in a returned tree the bounds of every node contain the bounds of
\* each of its children.
C28_BoundsContainChildren ==
    (AdapterDone /\ ~rawResult.threw) =>
        \A node \in NodesOf(rawResult.value) :
            \A i \in 1..Len(node.children) :
                Contains(node.bounds, node.children[i].bounds)

\* a row container of two clusters, one of them a composite widget with its
\* layers as children, and no child as large as its parent
C28_Witness ==
    /\ Returns
    /\ \E row \in NodesOf(rawResult.value) :
          /\ row.name \in {"Row Container", "Card Row"}
          /\ \E j \in 1..Len(row.children) :
                /\ row.children[j].bounds # row.bounds
                /\ IsComposite(row.children[j])
                /\ Len(row.children[j].children) > 1
                /\ \A k \in 1..Len(row.children[j].children) :
                      row.children[j].children[k].bounds # row.children[j].bounds

(***************************************************************************)
(* Properties of the layer tree editor                                     *)
(***************************************************************************)
\* the ids of a tree, depth first, one entry per layer
RECURSIVE TreeIds(_)
TreeIds(ls) ==
    IF ls = <<>> THEN <<>>
    ELSE <<Head(ls).id>>
         \o (IF HasLayerChildren(Head(ls)) THEN TreeIds(Head(ls).children) ELSE <<>>)
         \o TreeIds(Tail(ls))

TreeIdSet(ls) == {TreeIds(ls)[i] : i \in 1..Len(TreeIds(ls))}

EachIdOnce(ls) == Cardinality(TreeIdSet(ls)) = Len(TreeIds(ls))

\* the last call named a layer of the tree and, as its target, that layer
\* itself or a layer below it
OntoItselfOrBelow ==
    /\ lastCall # <<>>
    /\ FindLayerById(lastCall.draggedId, lastCall.layersBefore) # <<>>
    /\ lastCall.targetId \in
          TreeIdSet(FindLayerById(lastCall.draggedId, lastCall.layersBefore))

\* C29: after any sequence of moveLayer and nestLayer calls the tree holds the
\* ids it started with, each exactly once, and a call whose target is the
\* dragged layer or one of its descendants leaves the tree as it was.
C29_TreeKeepsItsLayers ==
    pc = "editor" =>
        /\ TreeIdSet(treeLayers) = TreeIdSet(treeStart)
        /\ EachIdOnce(treeLayers)
        /\ OntoItselfOrBelow => treeLayers = lastCall.layersBefore

\* a nestLayer call onto a layer two levels below the dragged one was
\* refused, in a tree that earlier calls had rearranged
C29_Witness ==
    /\ pc = "editor"
    /\ lastCall # <<>>
    /\ lastCall.op = "nestLayer"
    /\ OntoItselfOrBelow
    /\ lastCall.targetId # lastCall.draggedId
    /\ ~IsDescendantOfChildOnly(lastCall.targetId,
                                FindLayerById(lastCall.draggedId, lastCall.layersBefore)[1])
    /\ treeLayers # treeStart
    /\ TreeIds(treeLayers) # TreeIds(treeStart)

(***************************************************************************)
(* Properties of handleFileSelected                                        *)
(***************************************************************************)
\* at least two calls of handleFileSelected were made, one of them while
\* another awaited its parse, none is still awaiting, and neither handleReset
\* nor handleLayersChange was called
OverlappingCallsCompleted ==
    /\ pc = "app"
    /\ Len(handlers) >= 2
    /\ \E i \in 1..Len(handlers) : handlers[i].overlaps
    /\ \A i \in 1..Len(handlers) : handlers[i].at \in {"done", "shown", "failed"}

\* the four fields of appState are the ones a call on this file alone leaves
AllFromFile(file) ==
    /\ file.isPsd
    /\ appState.fileName = ReplacePsd(file.name)
    /\ appState.psdData = <<ParsePsdFile(file).value>>
    /\ appState.classifiedLayers = <<LayersAfterGenerate(ClassifyLayers(file.layers))>>
    /\ appState.elementorJson # <<>>
    /\ appState.elementorJson[1].title = TitleOf([fileName |-> ReplacePsd(file.name)])

\* C30: once two overlapping handleFileSelected calls have both completed,
\* appState.fileName, psdData, classifiedLayers and the title of elementorJson
\* all come from the same file.
C30_AllFromOneFile ==
    OverlappingCallsCompleted =>
        \E i \in 1..Len(handlers) : AllFromFile(handlers[i].file)

====
